---------------------------- MODULE Spec2Model ----------------------------
(***************************************************************************)
(* A model of the NVIDIA container toolkit's edit composer                 *)
(* (internal/edits) and driver root (internal/lookup/root).                *)
(*                                                                         *)
(* Strings that the code only compares are TLA+ strings.  Paths that the   *)
(* code takes apart (filepath.Base, filepath.Dir, strings.TrimPrefix,      *)
(* filepath.Match) are sequences of one-character strings.                 *)
(***************************************************************************)
EXTENDS Integers, Sequences, FiniteSets, TLC

VARIABLES
    \* internal/edits: EditsFromDiscoverer
    statfs,                 \* the host filesystem as unix.Lstat sees it: path -> stat
    allowAdditionalGIDs,    \* options.allowAdditionalGIDs
    discoverer,             \* the discover.Discover handed to the edit composer
    calls,                  \* the discoverer methods invoked by the last call, in order
    result,                 \* what the last EditsFromDiscoverer call returned
    requiredGIDs,           \* what getRequiredGID returned for each device of the last call
    \* internal/edits: SpecModifierFromDiscoverer and Modify
    modifier,               \* the *edits applier
    modifierErr,            \* the error SpecModifierFromDiscoverer returned
    ociSpec,                \* the target OCI runtime spec
    ociBefore,              \* the OCI spec as it was when the last Modify started
    modifyRet,              \* what the last Modify call returned
    applies,                \* number of Modify calls made
    \* internal/lookup/root: the Driver shared by the goroutines
    files,                  \* the library files of the driver root, in discovery order
    fsChanged,              \* whether the files changed since the Driver was built
    version,                \* Driver.version
    libraryRoot,            \* Driver.libraryRoot
    mutex,                  \* Driver.Mutex: the goroutine holding it, or NoHolder
    pc,                     \* where each goroutine is in Version() or LibraryRoot()
    local,                  \* each goroutine's local libcudaPath and libcudaPath()'s paths
    lastRet,                \* the last return of Version() or LibraryRoot()
    probes,                 \* how often each accessor called libcudaPath()
    versionsReturned,       \* the values successful Version() calls returned
    ncalls,                 \* number of accessor calls started
    \* tools/container/toolkit/installer: resolvePackageType and New
    hostFiles,              \* what the host holds at the probed paths
    hostRoot,               \* toolkitInstaller.hostRoot
    packageType,            \* toolkitInstaller.packageType, Options.packageType
    resolveRet,             \* what the last resolvePackageType call did
    newRet,                 \* what the last installer.New call did
    \* tools/container/toolkit/installer: toolkitInstaller.Install
    libraries,              \* what collectLibraries() returns
    executables,            \* what collectExecutables() returns
    installerRet,           \* what the last toolkitInstaller.Install call returned
    executed,               \* the installers that call ran, in order
    \* tools/container/toolkit: Install
    ignoreErrors,           \* Options.ignoreErrors
    stepFails,              \* the steps of Install that fail on this host
    installRet,             \* what the last toolkit.Install call did
    \* tools/container/toolkit: TryDelete
    toolkitDir,             \* the toolkit root: missing, unreadable, or its entries
    removeFails,            \* the names os.RemoveAll cannot remove ("." is the root)
    dirBefore,              \* the toolkit root when the last TryDelete started
    tryDeleteRet,           \* what the last TryDelete call returned
    \* internal/config: features
    features,               \* the configured features: each is nil, enabled or disabled
    envs,                   \* the environments handed to IsEnabled, in order
    featureName,            \* the feature name IsEnabled is asked about
    isEnabledRet,           \* what the last IsEnabled call returned
    \* internal/discover: the ldcache-update discoverer
    mountsFrom,             \* what Mounts() of the wrapped discoverer returns
    lookup,                 \* what the executable locator returns for nvidia-ctk
    hooksRet,               \* what the last Hooks() call returned
    \* the create-dot-so-symlinks hook: command.run
    containerState,         \* how loading the container state and its root ends
    containerFiles,         \* the paths that exist under the container root
    locatedLibs,            \* what the library locator returns for "*.so.<version>"
    driverVersion,          \* config.driverVersion
    symlinkFails,           \* the link paths os.Symlink cannot create
    filesBefore,            \* the container files when the last run started
    runRet,                 \* what the last command.run call did
    \* internal/lookup/root: Driver.Configs
    driverRoot,             \* Driver.Root
    configSearchPaths,      \* Driver.configSearchPaths
    xdgEnv,                 \* the environment variable XDG_DATA_DIRS: unset, or its value
    configsRet,             \* the options of the locator the last Configs() call built
    \* internal/discover: isLibName and uniqueFolders
    askedName,              \* the file name handed to isLibName
    isLibNameRet,           \* what the last isLibName call returned
    libraryPaths,           \* the files handed to uniqueFolders
    uniqueFoldersRet,       \* what the last uniqueFolders call returned
    \* tools/container/toolkit: ValidateOptions
    toolkitRoot,            \* the toolkit root handed to ValidateOptions
    opts,                   \* the Options: cdiKind, cdiEnabled, cdiOutputDir, ...
    optsBefore,             \* the Options when the last ValidateOptions started
    validateRet,            \* what the last ValidateOptions call returned
    \* pkg/nvcdi: vfiolib
    gpus,                   \* what nvpcilib.GetGPUs() returns
    deviceSpecsRet          \* what the last GetAllDeviceSpecs call returned

editsVars ==
    <<statfs, allowAdditionalGIDs, discoverer, calls, result, requiredGIDs>>
modifyVars == <<modifier, modifierErr, ociSpec, ociBefore, modifyRet, applies>>
driverVars ==
    <<files, fsChanged, version, libraryRoot, mutex, pc, local, lastRet,
      probes, versionsReturned, ncalls>>
hostVars == <<hostFiles, hostRoot, packageType, resolveRet, newRet>>
installerVars == <<libraries, executables, installerRet, executed>>
installVars == <<ignoreErrors, stepFails, installRet>>
deleteVars == <<toolkitDir, removeFails, dirBefore, tryDeleteRet>>
toolkitVars == <<hostVars, installerVars, installVars, deleteVars>>
featuresVars == <<features, envs, featureName, isEnabledRet>>
ldconfigVars == <<mountsFrom, lookup, hooksRet>>
symlinkVars ==
    <<containerState, containerFiles, locatedLibs, driverVersion, symlinkFails,
      filesBefore, runRet>>
configsVars == <<driverRoot, configSearchPaths, xdgEnv, configsRet>>
libNameVars == <<askedName, isLibNameRet>>
foldersVars == <<libraryPaths, uniqueFoldersRet>>
validateVars == <<toolkitRoot, opts, optsBefore, validateRet>>
vfioVars == <<gpus, deviceSpecsRet>>
commandVars ==
    <<symlinkVars, configsVars, libNameVars, foldersVars, validateVars,
      vfioVars>>
vars ==
    <<editsVars, modifyVars, driverVars, toolkitVars, featuresVars, ldconfigVars,
      commandVars>>

---------------------------------------------------------------------------
(* Bounds of the model *)

\* longest device list a discoverer returns
MaxDevices == 2
\* longest mount list and longest hook list a discoverer returns
MaxEntries == 1
\* number of Modify calls in one behaviour
MaxApplies == 2
\* number of goroutines sharing one Driver
NumGoroutines == 2
\* number of Version() and LibraryRoot() calls in one behaviour
MaxCalls == 3
\* longest list of installers collectLibraries or collectExecutables returns
MaxInstallers == 2
\* longest list of environments handed to IsEnabled
MaxEnvs == 2
\* longest mount list the discoverer wrapped by the ldcache update returns
MaxMounts == 3
\* longest list of libraries the library locator returns to the symlink hook
MaxLibs == 2
\* longest list of config search paths a Driver is built with
MaxSearchPaths == 2
\* longest list of files handed to uniqueFolders
MaxPaths == 3
\* longest list of --create-device-nodes values
MaxModes == 3
\* longest list of GPUs the PCI inventory returns
MaxGPUs == 3

SeqsUpTo(S, n) == UNION {[1..k -> S] : k \in 0..n}

Range(s) == {s[i] : i \in DOMAIN s}

---------------------------------------------------------------------------
(* unix.Stat_t as far as getRequiredGID reads it *)

S_IFMT == 61440
S_IFCHR == 8192
\* the file type bits of a regular file
S_IFREG == 8 * 4096
\* the permission bits os.FileMode.Perm keeps
ModePerm == 511

RECURSIVE BitAnd(_, _)
\* x & y on naturals
BitAnd(x, y) ==
    IF x = 0 \/ y = 0 THEN 0
    ELSE (x % 2) * (y % 2) + 2 * BitAnd(x \div 2, y \div 2)

\* rw-rw----, rw-rw-rw-, rw-rw-r--, rw-rw--w-
Perms == {6 * 64 + 6 * 8, 6 * 64 + 6 * 8 + 6, 6 * 64 + 6 * 8 + 4, 6 * 64 + 6 * 8 + 2}

NoFile == [ok |-> FALSE, Mode |-> 0, Gid |-> 0]

\* what Lstat can report for /dev/a: absent, or a char device or regular file
\* owned by group 0 or 44
StatsA ==
    {NoFile} \cup
    {[ok |-> TRUE, Mode |-> t + p, Gid |-> g] :
        t \in {S_IFCHR}, p \in Perms, g \in {0, 44}} \cup
    {[ok |-> TRUE, Mode |-> S_IFREG + p, Gid |-> 44] : p \in Perms}

\* what Lstat can report for /dev/b: absent, or a char device of group 27
StatsB ==
    {NoFile} \cup
    {[ok |-> TRUE, Mode |-> S_IFCHR + p, Gid |-> 27] :
        p \in {6 * 64 + 6 * 8, 6 * 64 + 6 * 8 + 6}}

DevPaths == {"/dev/a", "/dev/b"}

FileSystems ==
    {[p \in DevPaths |-> IF p = "/dev/a" THEN a ELSE b] : a \in StatsA, b \in StatsB}

\* unix.Lstat(path, &stat)
Lstat(fs, path) == IF path \in DOMAIN fs THEN fs[path] ELSE NoFile

---------------------------------------------------------------------------
(* discover.Device, discover.Mount, discover.Hook and the discoverer *)

Devices ==
    { [Path |-> "/dev/a", HostPath |-> ""],
      [Path |-> "/dev/a", HostPath |-> "/dev/a"],
      [Path |-> "/dev/a", HostPath |-> "/dev/b"],
      [Path |-> "/dev/b", HostPath |-> ""],
      [Path |-> "", HostPath |-> ""] }

Mounts == {[HostPath |-> "/lib/libcuda.so.1", Path |-> "/lib/libcuda.so.1"]}

Hooks == {[Lifecycle |-> "createContainer", Path |-> "/usr/bin/nvidia-ctk"]}

\* one operation of a discoverer: it fails, or it returns a list
Outcomes(S, n) ==
    {[failed |-> TRUE, val |-> <<>>]} \cup
    {[failed |-> FALSE, val |-> s] : s \in SeqsUpTo(S, n)}

Discoverers ==
    [ devices : Outcomes(Devices, MaxDevices),
      mounts : Outcomes(Mounts, MaxEntries),
      hooks : Outcomes(Hooks, MaxEntries) ]

---------------------------------------------------------------------------
(* internal/edits/device.go *)

\* toSpec without the HostPath/Path collapse
toSpecKeepsHostPath(d) == [HostPath |-> d.HostPath, Path |-> d.Path]

\* toSpec: a discovered device as a CDI device node
toSpec(d) ==
    [ HostPath |-> IF d.HostPath = d.Path THEN "" ELSE d.HostPath,
      Path |-> d.Path ]

\* getRequiredGID that stats the container path although a host path is set
getRequiredGIDStatsPath(d, fs) ==
    LET stat == Lstat(fs, d.Path)
    IN  IF d.Path = "" THEN 0
        ELSE IF ~stat.ok THEN 0
        ELSE IF BitAnd(stat.Mode, S_IFMT) # S_IFCHR THEN 0
        ELSE IF BitAnd(BitAnd(stat.Mode, ModePerm), 6) = 0 THEN stat.Gid
        ELSE 0

\* getRequiredGID without the check for a char device
getRequiredGIDAnyFileType(d, fs) ==
    LET path == IF d.HostPath = "" THEN d.Path ELSE d.HostPath
        stat == Lstat(fs, path)
    IN  IF path = "" THEN 0
        ELSE IF ~stat.ok THEN 0
        ELSE IF BitAnd(BitAnd(stat.Mode, ModePerm), 6) = 0 THEN stat.Gid
        ELSE 0

\* getRequiredGID: the group id of the device if it is a char device that
\* is not world read/writable, and 0 otherwise
getRequiredGID(d, fs) ==
    LET path == IF d.HostPath = "" THEN d.Path ELSE d.HostPath
        stat == Lstat(fs, path)
    IN  IF path = "" THEN 0
        ELSE IF ~stat.ok THEN 0
        ELSE IF BitAnd(stat.Mode, S_IFMT) # S_IFCHR THEN 0
        ELSE IF BitAnd(BitAnd(stat.Mode, ModePerm), 6) = 0 THEN stat.Gid
        ELSE 0

\* toEdits that computes the group id whatever the option says
toEditsIgnoresOption(d, allow, fs) ==
    LET requiredGID == getRequiredGID(d, fs)
    IN  [ DeviceNodes |-> <<toSpec(d)>>,
          Mounts |-> <<>>,
          Hooks |-> <<>>,
          AdditionalGIDs |-> IF requiredGID # 0 THEN <<requiredGID>> ELSE <<>> ]

\* device.toEdits: the container edits of one device
toEdits(d, allow, fs) ==
    LET requiredGID == getRequiredGID(d, fs)
    IN  [ DeviceNodes |-> <<toSpec(d)>>,
          Mounts |-> <<>>,
          Hooks |-> <<>>,
          AdditionalGIDs |->
              IF allow /\ requiredGID # 0 THEN <<requiredGID>> ELSE <<>> ]

\* mount.toEdits: a mount-edit entry carrying the mount unchanged
mountToEdits(m) ==
    [DeviceNodes |-> <<>>, Mounts |-> <<m>>, Hooks |-> <<>>, AdditionalGIDs |-> <<>>]

\* hook.toEdits: a hook-edit entry carrying the hook unchanged
hookToEdits(h) ==
    [DeviceNodes |-> <<>>, Mounts |-> <<>>, Hooks |-> <<h>>, AdditionalGIDs |-> <<>>]

---------------------------------------------------------------------------
(* internal/edits/api.go and lib.go *)

\* NewContainerEdits: an empty, non-nil edit set
NewContainerEdits ==
    [DeviceNodes |-> <<>>, Mounts |-> <<>>, Hooks |-> <<>>, AdditionalGIDs |-> <<>>]

\* cdi.ContainerEdits.Append
Append2(c, o) ==
    [ DeviceNodes |-> c.DeviceNodes \o o.DeviceNodes,
      Mounts |-> c.Mounts \o o.Mounts,
      Hooks |-> c.Hooks \o o.Hooks,
      AdditionalGIDs |-> c.AdditionalGIDs \o o.AdditionalGIDs ]

RECURSIVE AppendAll(_, _)
\* c.Append(e) for every e of es, in order
AppendAll(c, es) ==
    IF es = <<>> THEN c ELSE AppendAll(Append2(c, Head(es)), Tail(es))

NoError == [failed |-> FALSE, msg |-> "", wraps |-> ""]

\* fmt.Errorf(msg + ": %w", cause)
Errorf(msg, cause) == [failed |-> TRUE, msg |-> msg, wraps |-> cause]

NilEdits == [nil |-> TRUE, edits |-> NewContainerEdits]

\* the (edit set, error) pair and the discoverer methods invoked
Return(c, err, invoked) == [edits |-> c, err |-> err, calls |-> invoked]

\* Compose that appends the devices last to first
ComposeReversesDevices(allow, fs, devices, mounts, hooks) ==
    LET n == Len(devices)
        devEdits == [i \in DOMAIN devices |-> toEdits(devices[n + 1 - i], allow, fs)]
        mntEdits == [i \in DOMAIN mounts |-> mountToEdits(mounts[i])]
        hookEdits == [i \in DOMAIN hooks |-> hookToEdits(hooks[i])]
    IN  AppendAll(NewContainerEdits, devEdits \o mntEdits \o hookEdits)

\* the edit set of the devices, mounts and hooks, in that order
Compose(allow, fs, devices, mounts, hooks) ==
    LET devEdits == [i \in DOMAIN devices |-> toEdits(devices[i], allow, fs)]
        mntEdits == [i \in DOMAIN mounts |-> mountToEdits(mounts[i])]
        hookEdits == [i \in DOMAIN hooks |-> hookToEdits(hooks[i])]
    IN  AppendAll(NewContainerEdits, devEdits \o mntEdits \o hookEdits)

\* the values getRequiredGID returns while the devices are composed: toEdits
\* asks for it only when additional GIDs are allowed
RequiredGIDs(allow, fs, devices) ==
    IF allow THEN [i \in DOMAIN devices |-> getRequiredGID(devices[i], fs)]
    ELSE <<>>

\* EditsFromDiscoverer that asks for the mounts and hooks before it looks at
\* the error of Devices()
EditsFromDiscovererCallsAll(allow, fs, d) ==
    IF d.devices.failed
    THEN Return(NilEdits, Errorf("failed to discover devices", "devices"),
                <<"Devices", "Mounts", "Hooks">>)
    ELSE IF d.mounts.failed
    THEN Return(NilEdits, Errorf("failed to discover mounts", "mounts"),
                <<"Devices", "Mounts", "Hooks">>)
    ELSE IF d.hooks.failed
    THEN Return(NilEdits, Errorf("failed to discover hooks", "hooks"),
                <<"Devices", "Mounts", "Hooks">>)
    ELSE Return([nil |-> FALSE,
                 edits |-> Compose(allow, fs, d.devices.val, d.mounts.val, d.hooks.val)],
                NoError, <<"Devices", "Mounts", "Hooks">>)

\* EditsFromDiscoverer that goes on without the mounts when Mounts() fails
EditsFromDiscovererSkipsMounts(allow, fs, d) ==
    IF d.devices.failed
    THEN Return(NilEdits, Errorf("failed to discover devices", "devices"),
                <<"Devices">>)
    ELSE IF d.hooks.failed
    THEN Return(NilEdits, Errorf("failed to discover hooks", "hooks"),
                <<"Devices", "Mounts", "Hooks">>)
    ELSE Return([nil |-> FALSE,
                 edits |-> Compose(allow, fs, d.devices.val, d.mounts.val, d.hooks.val)],
                NoError, <<"Devices", "Mounts", "Hooks">>)

\* options.EditsFromDiscoverer
EditsFromDiscoverer(allow, fs, d) ==
    IF d.devices.failed
    THEN Return(NilEdits, Errorf("failed to discover devices", "devices"),
                <<"Devices">>)
    ELSE IF d.mounts.failed
    THEN Return(NilEdits, Errorf("failed to discover mounts", "mounts"),
                <<"Devices", "Mounts">>)
    ELSE IF d.hooks.failed
    THEN Return(NilEdits, Errorf("failed to discover hooks", "hooks"),
                <<"Devices", "Mounts", "Hooks">>)
    ELSE Return([nil |-> FALSE,
                 edits |-> Compose(allow, fs, d.devices.val, d.mounts.val, d.hooks.val)],
                NoError, <<"Devices", "Mounts", "Hooks">>)

\* a call of EditsFromDiscoverer on the discoverer
CallEditsFromDiscoverer ==
    LET r == EditsFromDiscoverer(allowAdditionalGIDs, statfs, discoverer)
    IN  /\ result' = [called |-> TRUE, edits |-> r.edits, err |-> r.err]
        /\ calls' = r.calls
        /\ requiredGIDs' =
            IF r.edits.nil THEN <<>>
            ELSE RequiredGIDs(allowAdditionalGIDs, statfs, discoverer.devices.val)
        /\ UNCHANGED <<statfs, allowAdditionalGIDs, discoverer>>

\* the edits applier: a nil *edits, and the zero value edits{} whose embedded
\* edit set is nil
NilApplier == [nil |-> TRUE, ContainerEdits |-> NilEdits]
ZeroApplier == [nil |-> FALSE, ContainerEdits |-> NilEdits]

\* options.SpecModifierFromDiscoverer
SpecModifierFromDiscoverer(allow, fs, d) ==
    LET r == EditsFromDiscoverer(allow, fs, d)
    IN  IF r.err.failed
        THEN [modifier |-> NilApplier,
              err |-> Errorf("error constructing container edits", r.err.msg)]
        ELSE [modifier |-> [nil |-> FALSE, ContainerEdits |-> r.edits],
              err |-> NoError]

\* the OCI runtime spec: the collections the edits are merged into
EmptySpec ==
    [ mounts |-> <<>>, hooks |-> <<>>, devices |-> <<>>,
      resourcesDevices |-> <<>>, additionalGids |-> <<>> ]

PopulatedSpec ==
    [ mounts |-> <<[HostPath |-> "/etc/hosts", Path |-> "/etc/hosts"]>>,
      hooks |-> <<[Lifecycle |-> "prestart", Path |-> "/usr/bin/setup"]>>,
      devices |-> <<[HostPath |-> "", Path |-> "/dev/a"]>>,
      resourcesDevices |-> <<[Allow |-> TRUE, Path |-> "/dev/a"]>>,
      additionalGids |-> <<44>> ]

InitialSpecs == {EmptySpec, PopulatedSpec}

\* cdi.ContainerEdits.Apply, the external spec-edit primitive: it fails with
\* its own error, or it adds the entries of the edit set to the collections
\* of the spec
Apply(e, spec, applyFails) ==
    IF applyFails
    THEN [spec |-> spec, err |-> Errorf("apply", "apply")]
    ELSE [spec |->
            [ mounts |-> spec.mounts \o e.Mounts,
              hooks |-> spec.hooks \o e.Hooks,
              devices |-> spec.devices \o e.DeviceNodes,
              resourcesDevices |-> spec.resourcesDevices \o
                  [i \in DOMAIN e.DeviceNodes |->
                      [Allow |-> TRUE, Path |-> e.DeviceNodes[i].Path]],
              additionalGids |-> spec.additionalGids \o e.AdditionalGIDs ],
          err |-> NoError]

\* Modify without the check of the embedded edit set: reading the mounts of
\* a nil edit set is a nil dereference
ModifyNoNilCheck(e, spec, applyFails) ==
    IF e.nil
    THEN [spec |-> spec, err |-> NoError]
    ELSE IF e.ContainerEdits.nil
    THEN [spec |-> spec, err |-> Errorf("nil pointer dereference", "panic")]
    ELSE Apply(e.ContainerEdits.edits, spec, applyFails)

\* Modify that drops what Apply returns
ModifyDropsError(e, spec, applyFails) ==
    IF e.nil \/ e.ContainerEdits.nil
    THEN [spec |-> spec, err |-> NoError]
    ELSE [spec |-> Apply(e.ContainerEdits.edits, spec, applyFails).spec,
          err |-> NoError]

\* edits.Modify
Modify(e, spec, applyFails) ==
    IF e.nil \/ e.ContainerEdits.nil
    THEN [spec |-> spec, err |-> NoError]
    ELSE Apply(e.ContainerEdits.edits, spec, applyFails)

NoModify ==
    [called |-> FALSE, applier |-> NilApplier, applyFails |-> FALSE, err |-> NoError]

\* a call of SpecModifierFromDiscoverer: the caller keeps the applier it gets
CallSpecModifierFromDiscoverer ==
    LET r == SpecModifierFromDiscoverer(allowAdditionalGIDs, statfs, discoverer)
    IN  /\ modifierErr' = r.err
        /\ modifier' = IF r.err.failed THEN modifier ELSE r.modifier
        /\ UNCHANGED <<ociSpec, ociBefore, modifyRet, applies>>

\* a call of Modify on the applier, with the target OCI spec
CallModify ==
    /\ applies < MaxApplies
    /\ \E applyFails \in BOOLEAN :
        LET r == Modify(modifier, ociSpec, applyFails)
        IN  /\ ociSpec' = r.spec
            /\ ociBefore' = ociSpec
            /\ modifyRet' = [called |-> TRUE, applier |-> modifier,
                             applyFails |-> applyFails, err |-> r.err]
    /\ applies' = applies + 1
    /\ UNCHANGED <<modifier, modifierErr>>

---------------------------------------------------------------------------
(* Strings as sequences of characters: path/filepath and strings *)

Slash == "/"

\* the last index of character c in s, or 0
LastIndex(s, c) ==
    LET is == {i \in DOMAIN s : s[i] = c}
    IN  IF is = {} THEN 0 ELSE CHOOSE i \in is : \A j \in is : j <= i

RECURSIVE StripTrailingSlashes(_)
StripTrailingSlashes(s) ==
    IF Len(s) > 0 /\ s[Len(s)] = Slash
    THEN StripTrailingSlashes(SubSeq(s, 1, Len(s) - 1))
    ELSE s

\* filepath.Base
Base(path) ==
    IF path = <<>> THEN <<".">>
    ELSE LET p == StripTrailingSlashes(path)
             b == SubSeq(p, LastIndex(p, Slash) + 1, Len(p))
         IN  IF b = <<>> THEN <<Slash>> ELSE b

RECURSIVE Split(_, _)
\* strings.Split(s, sep) for a one-character separator
Split(s, c) ==
    LET is == {i \in DOMAIN s : s[i] = c}
    IN  IF is = {} THEN <<s>>
        ELSE LET i == CHOOSE k \in is : \A j \in is : k <= j
             IN  <<SubSeq(s, 1, i - 1)>> \o Split(SubSeq(s, i + 1, Len(s)), c)

RECURSIVE CleanElems(_, _, _)
\* the elements filepath.Clean keeps: empty and "." elements are dropped,
\* ".." removes the element before it (and is kept at the start of a
\* relative path)
CleanElems(elems, out, rooted) ==
    IF elems = <<>> THEN out
    ELSE LET e == Head(elems)
         IN  IF e = <<>> \/ e = <<".">>
             THEN CleanElems(Tail(elems), out, rooted)
             ELSE IF e = <<".", ".">>
             THEN IF out # <<>> /\ out[Len(out)] # <<".", ".">>
                  THEN CleanElems(Tail(elems), SubSeq(out, 1, Len(out) - 1), rooted)
                  ELSE IF rooted
                  THEN CleanElems(Tail(elems), out, rooted)
                  ELSE CleanElems(Tail(elems), Append(out, e), rooted)
             ELSE CleanElems(Tail(elems), Append(out, e), rooted)

RECURSIVE Join(_)
\* the elements joined by slashes
Join(elems) ==
    IF elems = <<>> THEN <<>>
    ELSE IF Len(elems) = 1 THEN Head(elems)
    ELSE Head(elems) \o <<Slash>> \o Join(Tail(elems))

\* filepath.Clean
Clean(path) ==
    IF path = <<>> THEN <<".">>
    ELSE LET rooted == path[1] = Slash
             kept == Join(CleanElems(Split(path, Slash), <<>>, rooted))
         IN  IF rooted THEN <<Slash>> \o kept
             ELSE IF kept = <<>> THEN <<".">> ELSE kept

\* filepath.Dir
Dir(path) == Clean(SubSeq(path, 1, LastIndex(path, Slash)))

\* strings.HasPrefix
HasPrefix(s, prefix) ==
    Len(prefix) <= Len(s) /\ SubSeq(s, 1, Len(prefix)) = prefix

\* strings.TrimPrefix
TrimPrefix(s, prefix) ==
    IF HasPrefix(s, prefix) THEN SubSeq(s, Len(prefix) + 1, Len(s)) ELSE s

RECURSIVE Match(_, _)
\* filepath.Match for patterns of literal characters, '*' and '?'
Match(pattern, name) ==
    IF pattern = <<>> THEN name = <<>>
    ELSE IF Head(pattern) = "*"
    THEN \/ Match(Tail(pattern), name)
         \/ name # <<>> /\ Head(name) # Slash /\ Match(pattern, Tail(name))
    ELSE /\ name # <<>>
         /\ \/ Head(pattern) = "?" /\ Head(name) # Slash
            \/ Head(pattern) = Head(name)
         /\ Match(Tail(pattern), Tail(name))

---------------------------------------------------------------------------
(* internal/lookup/root/root.go: the Driver *)

\* "libcuda.so."
LibcudaPrefix == <<"l", "i", "b", "c", "u", "d", "a", ".", "s", "o", ".">>

\* "libcuda.so.*.*"
LibcudaPattern == LibcudaPrefix \o <<"*", ".", "*">>

\* /a/libcuda.so.1.2
LibA12 == <<"/", "a", "/", "l", "i", "b", "c", "u", "d", "a", ".", "s", "o", ".", "1", ".", "2">>

\* /b/libcuda.so.3.4
LibB34 == <<"/", "b", "/", "l", "i", "b", "c", "u", "d", "a", ".", "s", "o", ".", "3", ".", "4">>

\* /a/libcuda.so.1
LibA1 == <<"/", "a", "/", "l", "i", "b", "c", "u", "d", "a", ".", "s", "o", ".", "1">>

LibraryFiles == {LibA12, LibB34, LibA1}

\* what the driver root can hold, in discovery order: no library, a file
\* that does not match, one libcuda, two of them in either order
FileLists ==
    { <<>>,
      <<LibA1>>,
      <<LibA12>>,
      <<LibA1, LibA12, LibB34>>,
      <<LibB34, LibA12>> }

\* the library locator's Locate: the files whose base name matches the
\* pattern, in discovery order; an error when there is none
Locate(fs, pattern) ==
    LET found == SelectSeq(fs, LAMBDA f : Match(pattern, Base(f)))
    IN  [err |-> found = <<>>, paths |-> found]

\* libcudaPath, picking the last located path
libcudaPathPicksLast(fs) ==
    LET r == Locate(fs, LibcudaPattern)
    IN  IF r.err THEN [err |-> TRUE, path |-> <<>>]
        ELSE [err |-> FALSE, path |-> r.paths[Len(r.paths)]]

\* Driver.libcudaPath
libcudaPath(fs) ==
    LET r == Locate(fs, LibcudaPattern)
    IN  IF r.err THEN [err |-> TRUE, path |-> <<>>]
        ELSE [err |-> FALSE, path |-> r.paths[1]]

Goroutines == 1..NumGoroutines
NoHolder == 0
Ops == {"Version", "LibraryRoot"}
Idle == [op |-> "", at |-> "idle"]

\* sync.Mutex without mutual exclusion
MutexNeverHeld == TRUE

\* sync.Mutex.Lock returns only when nobody holds the mutex
MutexFree == mutex = NoHolder

\* a cache test that never finds the cached value
CacheNeverSet(cached) == FALSE

\* the test of the cached value: r.version != "", r.libraryRoot != ""
IsCached(cached) == cached # <<>>

\* the version Version() takes from the located path
VersionOf(path) == TrimPrefix(Base(path), LibcudaPrefix)

\* the located path itself as the library root
LibraryRootIsPath(path) == path

\* the library root LibraryRoot() takes from the located path
LibraryRootOf(path) == Dir(path)

NoLocal == [libcudaPath |-> <<>>, located |-> [err |-> FALSE, paths |-> <<>>]]

NoReturn ==
    [g |-> 0, op |-> "", val |-> <<>>, err |-> FALSE, probed |-> FALSE,
     located |-> [err |-> FALSE, paths |-> <<>>]]

\* goroutine g leaves the accessor: the deferred Unlock and the return
Leave(g, val, err, probed, located) ==
    /\ pc' = [pc EXCEPT ![g] = Idle]
    /\ mutex' = NoHolder
    /\ local' = [local EXCEPT ![g] = NoLocal]
    /\ lastRet' = [g |-> g, op |-> pc[g].op, val |-> val, err |-> err,
                   probed |-> probed, located |-> located]
    /\ versionsReturned' =
        IF pc[g].op = "Version" /\ ~err
        THEN versionsReturned \cup {val} ELSE versionsReturned

\* goroutine g calls Version() or LibraryRoot()
Call(g) ==
    /\ pc[g] = Idle
    /\ ncalls < MaxCalls
    /\ \E op \in Ops : pc' = [pc EXCEPT ![g] = [op |-> op, at |-> "lock"]]
    /\ ncalls' = ncalls + 1
    /\ UNCHANGED <<files, fsChanged, version, libraryRoot, mutex, local,
                   lastRet, probes, versionsReturned>>

\* r.Lock()
Lock(g) ==
    /\ pc[g].at = "lock"
    /\ MutexFree
    /\ mutex' = g
    /\ pc' = [pc EXCEPT ![g].at = "locked"]
    /\ UNCHANGED <<files, fsChanged, version, libraryRoot, local, lastRet,
                   probes, versionsReturned, ncalls>>

\* the cached value is returned, or libcudaPath() is called
Probe(g) ==
    /\ pc[g].at = "locked"
    /\ LET cached == IF pc[g].op = "Version" THEN version ELSE libraryRoot
           r == libcudaPath(files)
           located == Locate(files, LibcudaPattern)
       IN  IF IsCached(cached)
           THEN /\ Leave(g, cached, FALSE, FALSE, NoReturn.located)
                /\ UNCHANGED probes
           ELSE /\ probes' = [probes EXCEPT ![pc[g].op] = @ + 1]
                /\ IF r.err
                   THEN Leave(g, <<>>, TRUE, TRUE, located)
                   ELSE /\ pc' = [pc EXCEPT ![g].at = "located"]
                        /\ local' = [local EXCEPT ![g] = [libcudaPath |-> r.path, located |-> located]]
                        /\ UNCHANGED <<mutex, lastRet, versionsReturned>>
    /\ UNCHANGED <<files, fsChanged, version, libraryRoot, ncalls>>

\* the value is taken from the located path, cached and returned
Store(g) ==
    /\ pc[g].at = "located"
    /\ LET path == local[g].libcudaPath
           located == local[g].located
       IN  IF pc[g].op = "Version"
           THEN IF VersionOf(path) = <<>>
                THEN /\ Leave(g, <<>>, TRUE, TRUE, located)
                     /\ UNCHANGED <<version, libraryRoot>>
                ELSE /\ version' = VersionOf(path)
                     /\ Leave(g, VersionOf(path), FALSE, TRUE, located)
                     /\ UNCHANGED libraryRoot
           ELSE /\ libraryRoot' = LibraryRootOf(path)
                /\ Leave(g, LibraryRootOf(path), FALSE, TRUE, located)
                /\ UNCHANGED version
    /\ UNCHANGED <<files, fsChanged, probes, ncalls>>

\* the library files under the driver root change
ChangeFiles ==
    /\ \E fs \in FileLists \ {files} : files' = fs
    /\ fsChanged' = TRUE
    /\ UNCHANGED <<version, libraryRoot, mutex, pc, local, lastRet, probes,
                   versionsReturned, ncalls>>

---------------------------------------------------------------------------
(* tools/container/toolkit/installer: package type and artifact root *)

RpmPath == <<"/", "u", "s", "r", "/", "b", "i", "n", "/", "r", "p", "m">>
DpkgPath == <<"/", "u", "s", "r", "/", "b", "i", "n", "/", "d", "p", "k", "g">>

\* the host roots "", "/" and "/h"
HostRoots == {<<>>, <<Slash>>, <<Slash, "h">>}

\* filepath.Join(a, b): empty elements are ignored, the others are joined by
\* a slash and the result is cleaned
JoinPath(a, b) ==
    IF a = <<>> /\ b = <<>> THEN <<>>
    ELSE IF a = <<>> THEN Clean(b)
    ELSE IF b = <<>> THEN Clean(a)
    ELSE Clean(a \o <<Slash>> \o b)

\* the package manager executables a host can hold, under "/" and under "/h"
ProbedPaths ==
    {JoinPath(r, p) : r \in {<<Slash>>, <<Slash, "h">>}, p \in {RpmPath, DpkgPath}}

\* what a host holds at each of these paths
HostFileSystems == [ProbedPaths -> {"absent", "file", "dir"}]

\* the package types a caller passes: unset, auto, the two known ones and
\* an unknown one
PackageTypes == {"", "auto", "deb", "rpm", "apk"}

\* the nil fs.FileInfo
NilFileInfo == [nil |-> TRUE, isDir |-> FALSE]

\* os.Stat: (info, nil) for a path that exists, (nil, error) otherwise
Stat(fs, path) ==
    IF path \in DOMAIN fs /\ fs[path] # "absent"
    THEN [failed |-> FALSE, info |-> [nil |-> FALSE, isDir |-> fs[path] = "dir"]]
    ELSE [failed |-> TRUE, info |-> NilFileInfo]

\* the condition `err != nil && !info.IsDir()` on the result of os.Stat: &&
\* evaluates info.IsDir() only when err is not nil, and IsDir on a nil
\* FileInfo is a nil dereference
ErrAndNotDir(st) ==
    IF ~st.failed THEN "false"
    ELSE IF st.info.nil THEN "panic"
    ELSE IF ~st.info.isDir THEN "true"
    ELSE "false"

\* fmt.Errorf(msg + ": %v", ...)
Errorv(msg) == [failed |-> TRUE, msg |-> msg, wraps |-> ""]

\* what resolvePackageType does: it returns (packageType, nil) or panics,
\* after probing the paths of probed
Resolved(t, probed) ==
    [panic |-> FALSE, packageType |-> t, err |-> NoError, probed |-> probed]
ResolvePanics(probed) ==
    [panic |-> TRUE, packageType |-> "", err |-> NoError, probed |-> probed]

\* resolvePackageType(hostRoot, packageType)
resolvePackageType(fs, root, ptype) ==
    IF ptype # "" /\ ptype # "auto" THEN Resolved(ptype, <<>>)
    ELSE LET rpmPath == JoinPath(root, RpmPath)
             dpkgPath == JoinPath(root, DpkgPath)
             rpm == ErrAndNotDir(Stat(fs, rpmPath))
             dpkg == ErrAndNotDir(Stat(fs, dpkgPath))
         IN  IF rpm = "panic" THEN ResolvePanics(<<rpmPath>>)
             ELSE IF rpm = "true" THEN Resolved("rpm", <<rpmPath>>)
             ELSE IF dpkg = "panic" THEN ResolvePanics(<<rpmPath, dpkgPath>>)
             ELSE IF dpkg = "true" THEN Resolved("deb", <<rpmPath, dpkgPath>>)
             ELSE Resolved("deb", <<rpmPath, dpkgPath>>)

\* newArtifactRoot: the artifact root of a package type, or an error
newArtifactRoot(ptype) ==
    IF ptype = "deb"
    THEN [nil |-> FALSE, path |-> "/artifacts/deb", err |-> NoError]
    ELSE IF ptype = "rpm"
    THEN [nil |-> FALSE, path |-> "/artifacts/rpm", err |-> NoError]
    ELSE [nil |-> TRUE, path |-> "", err |-> Errorv("invalid package type")]

\* the nil Installer that New returns with an error
NilInstaller == [nil |-> TRUE, artifactRoot |-> ""]

\* installer.New(WithHostRoot(root), WithPackageType(ptype)): no
\* artifact root is given, so the package type is resolved
New(fs, root, ptype) ==
    LET r == resolvePackageType(fs, root, ptype)
        a == newArtifactRoot(r.packageType)
    IN  IF r.panic THEN [panic |-> TRUE, installer |-> NilInstaller, err |-> NoError]
        ELSE IF r.err.failed
        THEN [panic |-> FALSE, installer |-> NilInstaller, err |-> r.err]
        ELSE IF a.err.failed
        THEN [panic |-> FALSE, installer |-> NilInstaller, err |-> a.err]
        ELSE [panic |-> FALSE,
              installer |-> [nil |-> FALSE, artifactRoot |-> a.path],
              err |-> NoError]

---------------------------------------------------------------------------
(* tools/container/toolkit/installer: toolkitInstaller.Install *)

\* the installers collectLibraries and collectExecutables can return: each
\* has a name and succeeds or fails when it is run
LibraryInstallers ==
    {[name |-> n, fails |-> f] :
        n \in {"libnvidia-container.so.1", "libnvidia-container-go.so.1"},
        f \in BOOLEAN}
ExecutableInstallers ==
    {[name |-> n, fails |-> f] :
        n \in {"nvidia-container-cli", "nvidia-ctk"}, f \in BOOLEAN}

\* the lists of installers without a repeated name
Collected(S, n) ==
    {s \in SeqsUpTo(S, n) : \A i, j \in DOMAIN s : s[i].name = s[j].name => i = j}

\* collectLibraries() and collectExecutables(): an error, or installers
Collections(S, n) ==
    {[failed |-> TRUE, val |-> <<>>]} \cup
    {[failed |-> FALSE, val |-> s] : s \in Collected(S, n)}

\* i.Install(destDir) of one collected installer
InstallOne(i) == IF i.fails THEN Errorv(i.name) ELSE NoError

\* errors.Join(errs, err): the non-nil errors in order; nil when there are none
ErrorsJoin(errs, err) == IF err.failed THEN Append(errs, err) ELSE errs

\* the error toolkitInstaller.Install returns: nil, the wrapped error of a
\* collection, or the errors joined by errors.Join
NilError == [failed |-> FALSE, msg |-> "", wraps |-> "", joined |-> <<>>]
WrappedError(msg, cause) ==
    [failed |-> TRUE, msg |-> msg, wraps |-> cause, joined |-> <<>>]
JoinedError(errs) ==
    IF errs = <<>> THEN NilError
    ELSE [failed |-> TRUE, msg |-> "", wraps |-> "", joined |-> errs]

RECURSIVE RunInstallersStopsAtFailure(_, _, _)
\* the loop that returns at the first installer that fails
RunInstallersStopsAtFailure(installers, errs, ran) ==
    IF installers = <<>> \/ errs # <<>>
    THEN [err |-> JoinedError(errs), executed |-> ran]
    ELSE RunInstallersStopsAtFailure(Tail(installers),
                       ErrorsJoin(errs, InstallOne(Head(installers))),
                       Append(ran, Head(installers).name))

RECURSIVE RunInstallers(_, _, _)
\* the loop over the installers: every one is run and its error joined
RunInstallers(installers, errs, ran) ==
    IF installers = <<>> THEN [err |-> JoinedError(errs), executed |-> ran]
    ELSE RunInstallers(Tail(installers),
                       ErrorsJoin(errs, InstallOne(Head(installers))),
                       Append(ran, Head(installers).name))

\* toolkitInstaller.Install(destDir): the error it returns and the installers
\* it ran, in order
toolkitInstallerInstall(libs, execs) ==
    IF libs.failed
    THEN [err |-> WrappedError("failed to collect libraries", "libraries"),
          executed |-> <<>>]
    ELSE IF execs.failed
    THEN [err |-> WrappedError("failed to collect executables", "executables"),
          executed |-> <<>>]
    ELSE RunInstallers(libs.val \o execs.val, <<>>, <<>>)

---------------------------------------------------------------------------
(* tools/container/toolkit/toolkit.go: Install *)

\* the steps of Install, in the order of the code
InstallSteps ==
    << "os.RemoveAll", "createDirectories", "installer.New", "toolkit.Install",
       "installToolkitConfig", "createDeviceNodes", "generateCDISpec" >>

\* the steps that fail or succeed as the host decides
HostSteps ==
    { "os.RemoveAll", "createDirectories", "installToolkitConfig",
      "createDeviceNodes", "generateCDISpec" }

\* the message Install puts in front of the error of a step
StepMessage(step) ==
    CASE step = "os.RemoveAll" -> "error removing toolkit directory"
      [] step = "createDirectories" -> "could not create required directories"
      [] step = "installer.New" -> "could not create toolkit installer"
      [] step = "toolkit.Install" -> "could not install toolkit components"
      [] step = "installToolkitConfig" ->
            "error installing NVIDIA container toolkit config"
      [] step = "createDeviceNodes" -> "error creating device nodes"
      [] step = "generateCDISpec" -> "error generating CDI specification"

\* what Install works on: the failing host steps, the host, the package type
\* and what the installer collects
InstallEnv(fails, fs, root, pt, libs, execs) ==
    [ fails |-> fails, fs |-> fs, hostRoot |-> root, packageType |-> pt,
      libraries |-> libs, executables |-> execs ]

\* how a step ends: "ok", "fail" (err != nil) or "panic".  toolkit.Install
\* is called on the Installer that installer.New returned, also when that
\* is the nil Installer of a failed New.
StepOutcome(step, env) ==
    LET n == New(env.fs, env.hostRoot, env.packageType)
    IN  IF step = "installer.New"
        THEN IF n.panic THEN "panic" ELSE IF n.err.failed THEN "fail" ELSE "ok"
        ELSE IF step = "toolkit.Install"
        THEN IF n.installer.nil THEN "panic"
             ELSE IF toolkitInstallerInstall(env.libraries, env.executables).err.failed
             THEN "fail"
             ELSE "ok"
        ELSE IF step \in env.fails THEN "fail" ELSE "ok"

\* what Install does: it returns nil or an error, or panics, after attempting
\* the steps of attempted and logging the errors of ignored
InstallEnds(kind, msg, attempted, ignored) ==
    [kind |-> kind, msg |-> msg, attempted |-> attempted, ignored |-> ignored]

\* how each step of Install ends on a host
StepOutcomes(env) ==
    [step \in Range(InstallSteps) |-> StepOutcome(step, env)]

RECURSIVE RunStepsNeverStops(_, _, _, _, _)
\* the steps one after the other, every error logged and none returned
RunStepsNeverStops(steps, ignore, outcomes, attempted, ignored) ==
    IF steps = <<>> THEN InstallEnds("nil", "", attempted, ignored)
    ELSE IF outcomes[Head(steps)] = "panic"
    THEN InstallEnds("panic", "", Append(attempted, Head(steps)), ignored)
    ELSE IF outcomes[Head(steps)] = "fail"
    THEN RunStepsNeverStops(Tail(steps), ignore, outcomes,
                            Append(attempted, Head(steps)),
                            Append(ignored, StepMessage(Head(steps))))
    ELSE RunStepsNeverStops(Tail(steps), ignore, outcomes,
                            Append(attempted, Head(steps)), ignored)

RECURSIVE RunSteps(_, _, _, _, _)
\* the steps one after the other: an error ends Install unless errors are
\* ignored, in which case it is logged
RunSteps(steps, ignore, outcomes, attempted, ignored) ==
    IF steps = <<>> THEN InstallEnds("nil", "", attempted, ignored)
    ELSE IF outcomes[Head(steps)] = "panic"
    THEN InstallEnds("panic", "", Append(attempted, Head(steps)), ignored)
    ELSE IF outcomes[Head(steps)] = "fail" /\ ~ignore
    THEN InstallEnds("error", StepMessage(Head(steps)),
                     Append(attempted, Head(steps)), ignored)
    ELSE IF outcomes[Head(steps)] = "fail"
    THEN RunSteps(Tail(steps), ignore, outcomes, Append(attempted, Head(steps)),
                  Append(ignored, StepMessage(Head(steps))))
    ELSE RunSteps(Tail(steps), ignore, outcomes, Append(attempted, Head(steps)),
                  ignored)

\* toolkit.Install(cli, opts, toolkitRoot, hostRoot)
Install(ignore, env) ==
    RunSteps(InstallSteps, ignore, StepOutcomes(env), <<>>, <<>>)

---------------------------------------------------------------------------
(* tools/container/toolkit/toolkit.go: TryDelete *)

toolkitPidFilename == "toolkit.pid"

\* the names a toolkit root can hold
EntryNames == {toolkitPidFilename, "nvidia-ctk", ".config"}

\* the toolkit root itself, as a name os.RemoveAll may fail on
RootName == "."

\* the toolkit root: it does not exist, it cannot be read, or it is a
\* directory holding entries
ToolkitDirs ==
    {[state |-> st, entries |-> {}] : st \in {"missing", "unreadable"}} \cup
    {[state |-> "dir", entries |-> es] : es \in SUBSET EntryNames}

\* os.RemoveAll(root): every entry that can be removed is removed, and the
\* root with them unless an entry stays or the root cannot be removed
RemoveAll(dir, fails) ==
    LET left == dir.entries \cap fails
    IN  IF dir.state = "missing" THEN dir
        ELSE IF left = {} /\ RootName \notin fails
        THEN [state |-> "missing", entries |-> {}]
        ELSE [state |-> dir.state, entries |-> left]

\* the loop of TryDelete: os.RemoveAll on every entry but toolkit.pid
RemoveContents(dir, fails) ==
    [ state |-> dir.state,
      entries |-> {e \in dir.entries : e = toolkitPidFilename \/ e \in fails} ]

\* TryDelete(cli, toolkitRoot): the error it returns and the toolkit root
\* it leaves
TryDelete(dir, fails) ==
    IF dir.state = "missing" THEN [err |-> NoError, dir |-> dir]
    ELSE IF dir.state = "unreadable"
    THEN [err |-> Errorf("failed to read the contents of", "ReadDir"), dir |-> dir]
    ELSE [err |-> NoError, dir |-> RemoveAll(RemoveContents(dir, fails), fails)]

---------------------------------------------------------------------------
(* the calls of the toolkit container *)

NoResolve == [called |-> FALSE, ret |-> Resolved("", <<>>)]
NoNew == [called |-> FALSE,
          ret |-> [panic |-> FALSE, installer |-> NilInstaller, err |-> NoError]]
NoInstallerRet == [called |-> FALSE, err |-> NilError]
NoInstall == [called |-> FALSE, ret |-> InstallEnds("nil", "", <<>>, <<>>)]
NoTryDelete == [called |-> FALSE, err |-> NoError]

CallResolvePackageType ==
    /\ resolveRet' =
        [called |-> TRUE, ret |-> resolvePackageType(hostFiles, hostRoot, packageType)]
    /\ UNCHANGED <<hostFiles, hostRoot, packageType, newRet>>

CallNew ==
    /\ newRet' = [called |-> TRUE, ret |-> New(hostFiles, hostRoot, packageType)]
    /\ UNCHANGED <<hostFiles, hostRoot, packageType, resolveRet>>

CallInstallerInstall ==
    LET r == toolkitInstallerInstall(libraries, executables)
    IN  /\ installerRet' = [called |-> TRUE, err |-> r.err]
        /\ executed' = r.executed
        /\ UNCHANGED <<libraries, executables>>

CallInstall ==
    /\ installRet' =
        [ called |-> TRUE,
          ret |-> Install(ignoreErrors,
                          InstallEnv(stepFails, hostFiles, hostRoot, packageType,
                                     libraries, executables)) ]
    /\ UNCHANGED <<ignoreErrors, stepFails>>

CallTryDelete ==
    LET r == TryDelete(toolkitDir, removeFails)
    IN  /\ dirBefore' = toolkitDir
        /\ toolkitDir' = r.dir
        /\ tryDeleteRet' = [called |-> TRUE, err |-> r.err]
        /\ UNCHANGED removeFails

---------------------------------------------------------------------------
(* internal/config/features.go *)

FeatureGDS == "gds"
FeatureMOFED == "mofed"
FeatureNVSWITCH == "nvswitch"
FeatureGDRCopy == "gdrcopy"
FeatureAllowAdditionalGIDs == "allow-additional-gids"

\* the feature names IsEnabled is asked about: the five it knows and one it
\* does not
FeatureNames ==
    { FeatureGDS, FeatureMOFED, FeatureNVSWITCH, FeatureGDRCopy,
      FeatureAllowAdditionalGIDs, "imex" }

\* a *feature: nil, or a pointer to featureEnabled or featureDisabled
NilFeature == [nil |-> TRUE, val |-> FALSE]
FeaturePointers == {NilFeature} \cup {[nil |-> FALSE, val |-> v] : v \in BOOLEAN}

\* the features struct: gds and mofed are configured or not, the others
\* are not
FeatureConfigs ==
    { [ GDS |-> g, MOFED |-> m, NVSWITCH |-> NilFeature, GDRCopy |-> NilFeature,
        AllowAdditionalGIDs |-> NilFeature ] :
        g \in FeaturePointers, m \in FeaturePointers }

\* the values an environment holds for a feature envvar; "" is unset
EnvValues == {"", "enabled", "true", "disabled", "false", "yes"}

\* the environments: NVIDIA_GDS holds any of the values, NVIDIA_MOFED is
\* unset or enabled, and no other variable is set
Environments ==
    { [NVIDIA_GDS |-> g, NVIDIA_MOFED |-> m] :
        g \in EnvValues, m \in {"", "enabled"} }

\* in.Getenv(k): the value of k, "" when it is not set
Getenv(in, k) == IF k \in DOMAIN in THEN in[k] ELSE ""

\* featureEnvvars[n]: the envvar of a feature, "" for a name not in the map
featureEnvvars(n) ==
    CASE n = FeatureGDS -> "NVIDIA_GDS"
      [] n = FeatureMOFED -> "NVIDIA_MOFED"
      [] n = FeatureNVSWITCH -> "NVIDIA_NVSWITCH"
      [] n = FeatureGDRCopy -> "NVIDIA_GDRCOPY"
      [] n = FeatureAllowAdditionalGIDs -> "NVIDIA_ALLOW_ADDITIONAL_GIDS"
      [] OTHER -> ""

\* feature.isEnabled that returns the configured value when there is one
\* and looks at the environments only otherwise
RECURSIVE isEnabledConfigFirst(_, _, _)
isEnabledConfigFirst(f, envvar, ins) ==
    IF ~f.nil THEN f.val
    ELSE IF envvar = "" \/ ins = <<>> THEN FALSE
    ELSE LET v == Getenv(Head(ins), envvar)
         IN  IF v \in {"enabled", "true"} THEN TRUE
             ELSE IF v \in {"disabled", "false"} THEN FALSE
             ELSE isEnabledConfigFirst(f, envvar, Tail(ins))

\* feature.isEnabled: the first environment with a recognised value of the
\* envvar decides, and the configured value otherwise
RECURSIVE isEnabled(_, _, _)
isEnabled(f, envvar, ins) ==
    IF envvar = "" \/ ins = <<>> THEN (IF ~f.nil THEN f.val ELSE FALSE)
    ELSE LET v == Getenv(Head(ins), envvar)
         IN  IF v \in {"enabled", "true"} THEN TRUE
             ELSE IF v \in {"disabled", "false"} THEN FALSE
             ELSE isEnabled(f, envvar, Tail(ins))

\* features.IsEnabled
IsEnabled(fs, n, in) ==
    LET envvar == featureEnvvars(n)
    IN  CASE n = FeatureGDS -> isEnabled(fs.GDS, envvar, in)
          [] n = FeatureMOFED -> isEnabled(fs.MOFED, envvar, in)
          [] n = FeatureNVSWITCH -> isEnabled(fs.NVSWITCH, envvar, in)
          [] n = FeatureGDRCopy -> isEnabled(fs.GDRCopy, envvar, in)
          [] n = FeatureAllowAdditionalGIDs ->
                isEnabled(fs.AllowAdditionalGIDs, envvar, in)
          [] OTHER -> FALSE

NoIsEnabled == [called |-> FALSE, val |-> FALSE]

CallIsEnabled ==
    /\ isEnabledRet' = [called |-> TRUE, val |-> IsEnabled(features, featureName, envs)]
    /\ UNCHANGED <<features, envs, featureName>>

---------------------------------------------------------------------------
(* internal/discover: the ldcache-update discoverer *)

nvidiaCTKDefaultFilePath ==
    << "/", "u", "s", "r", "/", "b", "i", "n", "/", "n", "v", "i", "d",
       "i", "a", "-", "c", "t", "k" >>
\* an nvidia-ctk the executable locator finds: "/opt/bin/ctk"
LocatedCTK ==
    << "/", "o", "p", "t", "/", "b", "i", "n", "/", "c", "t", "k" >>

\* the arguments "hook", "update-ldcache" and "--folder"
HookArg == <<"h", "o", "o", "k">>
UpdateLdcacheArg ==
    << "u", "p", "d", "a", "t", "e", "-", "l", "d", "c", "a", "c", "h",
       "e" >>
FolderArg == <<"-", "-", "f", "o", "l", "d", "e", "r">>

\* the paths of the mounts: "/a/libx.so.1", "/a/liby.so", "/b/libz.so.2",
\* "/c/x.conf"
LibxPath ==
    << "/", "a", "/", "l", "i", "b", "x", ".", "s", "o", ".", "1" >>
LibyPath == <<"/", "a", "/", "l", "i", "b", "y", ".", "s", "o">>
LibzPath ==
    << "/", "b", "/", "l", "i", "b", "z", ".", "s", "o", ".", "2" >>
ConfPath == <<"/", "c", "/", "x", ".", "c", "o", "n", "f">>
\* "/d/libw.so.x" and "/c/libu.sox"
LibwPath ==
    << "/", "d", "/", "l", "i", "b", "w", ".", "s", "o", ".", "x" >>
LibuPath == <<"/", "c", "/", "l", "i", "b", "u", ".", "s", "o", "x">>

MountPaths == {LibxPath, LibyPath, LibzPath, ConfPath, LibwPath, LibuPath}

\* discover.Mount as far as the ldcache update reads it
LibraryMounts == {[Path |-> p] : p \in MountPaths}

\* lookup.Locate(executable): an error, no candidate, or candidates
LocateOutcomes ==
    { [failed |-> TRUE, val |-> <<>>],
      [failed |-> FALSE, val |-> <<>>],
      [failed |-> FALSE, val |-> <<LocatedCTK>>],
      [failed |-> FALSE, val |-> <<LocatedCTK, nvidiaCTKDefaultFilePath>>] }

\* the index of the first occurrence of sep in s, or 0
IndexOf(s, sep) ==
    LET is == {i \in 1..(Len(s) - Len(sep) + 1) : SubSeq(s, i, i + Len(sep) - 1) = sep}
    IN  IF is = {} THEN 0 ELSE CHOOSE i \in is : \A j \in is : i <= j

RECURSIVE SplitSep(_, _)
\* strings.Split(s, sep) for a separator that is not empty
SplitSep(s, sep) ==
    LET i == IndexOf(s, sep)
    IN  IF i = 0 THEN <<s>>
        ELSE <<SubSeq(s, 1, i - 1)>> \o SplitSep(SubSeq(s, i + Len(sep), Len(s)), sep)

\* the pattern "lib?*.so*" and the separator ".so"
LibNamePattern == <<"l", "i", "b", "?", "*", ".", "s", "o", "*">>
DotSo == <<".", "s", "o">>

\* isLibName that only matches the base name against lib?*.so*
isLibNameGlobOnly(filename) == Match(LibNamePattern, Base(filename))

\* isLibName that looks at what follows the first ".so"
isLibNameFirstDotSo(filename) ==
    IF ~Match(LibNamePattern, Base(filename)) THEN FALSE
    ELSE IF Len(SplitSep(Base(filename), DotSo)) = 1 THEN TRUE
    ELSE SplitSep(Base(filename), DotSo)[2] = <<>>
            \/ HasPrefix(SplitSep(Base(filename), DotSo)[2], <<".">>)

\* isLibName: the base name matches lib?*.so* and what follows the last
\* ".so" is empty or starts with a dot
isLibName(filename) ==
    LET base == Base(filename)
        parts == SplitSep(base, DotSo)
    IN  IF ~Match(LibNamePattern, base) THEN FALSE
        ELSE IF Len(parts) = 1 THEN TRUE
        ELSE parts[Len(parts)] = <<>> \/ HasPrefix(parts[Len(parts)], <<".">>)

RECURSIVE getLibraryPathsAll(_)
\* getLibraryPaths that keeps the path of every mount
getLibraryPathsAll(mounts) ==
    IF mounts = <<>> THEN <<>>
    ELSE <<Head(mounts).Path>> \o getLibraryPathsAll(Tail(mounts))

RECURSIVE getLibraryPaths(_)
\* getLibraryPaths: the paths of the mounts that are libs
getLibraryPaths(mounts) ==
    IF mounts = <<>> THEN <<>>
    ELSE IF ~isLibName(Head(mounts).Path) THEN getLibraryPaths(Tail(mounts))
    ELSE <<Head(mounts).Path>> \o getLibraryPaths(Tail(mounts))

RECURSIVE UniqueFoldersKeepsAll(_, _)
\* the loop of uniqueFolders without the check for folders already found
UniqueFoldersKeepsAll(libs, paths) ==
    IF libs = <<>> THEN paths
    ELSE IF Dir(Head(libs)) = <<>> THEN UniqueFoldersKeepsAll(Tail(libs), paths)
    ELSE UniqueFoldersKeepsAll(Tail(libs), Append(paths, Dir(Head(libs))))

RECURSIVE UniqueFoldersFrom(_, _)
\* the loop of uniqueFolders: paths holds the folders found so far
UniqueFoldersFrom(libs, paths) ==
    IF libs = <<>> THEN paths
    ELSE LET dir == Dir(Head(libs))
         IN  IF dir = <<>> THEN UniqueFoldersFrom(Tail(libs), paths)
             ELSE IF dir \in Range(paths)
             THEN UniqueFoldersFrom(Tail(libs), paths)
             ELSE UniqueFoldersFrom(Tail(libs), Append(paths, dir))

\* uniqueFolders: the folders of the files, each once, in order
uniqueFolders(libs) == UniqueFoldersFrom(libs, <<>>)

RECURSIVE FolderArgs(_)
\* "--folder", f for every folder f
FolderArgs(folders) ==
    IF folders = <<>> THEN <<>>
    ELSE <<FolderArg, Head(folders)>> \o FolderArgs(Tail(folders))

\* CreateLDCacheUpdateHook that runs the last located executable
CreateLDCacheUpdateHookLast(located, defaultPath, libs) ==
    LET hookPath ==
            IF located.failed THEN defaultPath
            ELSE IF Len(located.val) = 0 THEN defaultPath
            ELSE located.val[Len(located.val)]
    IN  [ Lifecycle |-> "createContainer",
          Path |-> hookPath,
          Args |-> <<Base(hookPath), HookArg, UpdateLdcacheArg>>
                    \o FolderArgs(uniqueFolders(libs)) ]

\* CreateLDCacheUpdateHook: the hook runs the first located executable, or
\* the default path when none is located
CreateLDCacheUpdateHook(located, defaultPath, libs) ==
    LET hookPath ==
            IF located.failed THEN defaultPath
            ELSE IF Len(located.val) = 0 THEN defaultPath
            ELSE located.val[1]
    IN  [ Lifecycle |-> "createContainer",
          Path |-> hookPath,
          Args |-> <<Base(hookPath), HookArg, UpdateLdcacheArg>>
                    \o FolderArgs(uniqueFolders(libs)) ]

\* ldconfig.Hooks
ldconfigHooks(mounts, located) ==
    IF mounts.failed
    THEN [ nil |-> TRUE, hooks |-> <<>>,
           err |-> Errorv("failed to discover mounts for ldcache update") ]
    ELSE [ nil |-> FALSE,
           hooks |-> <<CreateLDCacheUpdateHook(located, nvidiaCTKDefaultFilePath,
                                                getLibraryPaths(mounts.val))>>,
           err |-> NoError ]

NoHooks == [called |-> FALSE, nil |-> TRUE, hooks |-> <<>>, err |-> NoError]

CallHooks ==
    LET r == ldconfigHooks(mountsFrom, lookup)
    IN  /\ hooksRet' = [called |-> TRUE, nil |-> r.nil, hooks |-> r.hooks, err |-> r.err]
        /\ UNCHANGED <<mountsFrom, lookup>>

\* the file names isLibName is asked about: a directory or none, then "lib"
\* or not, a stem, and what ends the name
FileNames ==
    {d \o p \o st \o sf :
        d \in {<<>>, <<"/", "a", "/">>},
        p \in {<<"l", "i", "b">>, <<"l">>, <<>>},
        st \in {<<"f", "o", "o">>, <<>>, <<".", "s", "o">>, <<"x", ".", "s", "o">>},
        sf \in {<<>>, <<".", "s", "o">>, <<".", "s", "o", ".", "1">>,
                <<".", "s", "o", ".", "1", ".", "2", ".", "3">>,
                <<".", "s", "o", "u", "p">>, <<".", "s", "o", "x">>,
                <<".", "s", "o", ".">>}}

NoIsLibName == [called |-> FALSE, val |-> FALSE]

CallIsLibName ==
    /\ isLibNameRet' = [called |-> TRUE, val |-> isLibName(askedName)]
    /\ UNCHANGED askedName

\* the files uniqueFolders is asked about: "/a/libx.so.1", "/a/liby.so.1",
\* "/b/libz.so.1", "/a//libq.so", "/libr.so", "libv.so" and ""
FilePaths ==
    { <<"/", "a", "/", "l", "i", "b", "x", ".", "s", "o", ".", "1">>,
      <<"/", "a", "/", "l", "i", "b", "y", ".", "s", "o", ".", "1">>,
      <<"/", "b", "/", "l", "i", "b", "z", ".", "s", "o", ".", "1">>,
      <<"/", "a", "/", "/", "l", "i", "b", "q", ".", "s", "o">>,
      <<"/", "l", "i", "b", "r", ".", "s", "o">>,
      <<"l", "i", "b", "v", ".", "s", "o">>,
      <<>> }

NoUniqueFolders == [called |-> FALSE, val |-> <<>>]

CallUniqueFolders ==
    /\ uniqueFoldersRet' = [called |-> TRUE, val |-> uniqueFolders(libraryPaths)]
    /\ UNCHANGED libraryPaths

---------------------------------------------------------------------------
(* the create-dot-so-symlinks hook: command.run *)

\* "/l/libx.so.535", "/l/libx.so.1", "/l/libx.so.2", "/l/liby.so.535",
\* "/l/liby.so.1" and "/l/libx.so" in the container
Libx535 ==
    << "/", "l", "/", "l", "i", "b", "x", ".", "s", "o", ".", "5", "3",
       "5" >>
Libx1 == <<"/", "l", "/", "l", "i", "b", "x", ".", "s", "o", ".", "1">>
Libx2 == <<"/", "l", "/", "l", "i", "b", "x", ".", "s", "o", ".", "2">>
Liby535 ==
    << "/", "l", "/", "l", "i", "b", "y", ".", "s", "o", ".", "5", "3",
       "5" >>
Liby1 == <<"/", "l", "/", "l", "i", "b", "y", ".", "s", "o", ".", "1">>
LibxSo == <<"/", "l", "/", "l", "i", "b", "x", ".", "s", "o">>
LibySo == <<"/", "l", "/", "l", "i", "b", "y", ".", "s", "o">>

ContainerPaths == {Libx535, Libx1, Libx2, Liby535, Liby1, LibxSo}

\* the driver versions "535" and "1"
DriverVersions == {<<"5", "3", "5">>, <<"1">>}

\* strings.HasSuffix
HasSuffix(s, suffix) ==
    Len(suffix) <= Len(s)
        /\ SubSeq(s, Len(s) - Len(suffix) + 1, Len(s)) = suffix

\* strings.TrimSuffix
TrimSuffix(s, suffix) ==
    IF HasSuffix(s, suffix) THEN SubSeq(s, 1, Len(s) - Len(suffix)) ELSE s

\* the characters of the class [0-9]
Digits == {"0", "1", "2", "3", "4", "5", "6", "7", "8", "9"}
\* the pattern ".[0-9]" that run appends to the path of the link
DotDigit == <<".", "[", "0", "-", "9", "]">>

RECURSIVE MatchClass(_, _)
\* filepath.Match for patterns of literal characters, '*', '?' and the
\* character class [0-9]
MatchClass(pattern, name) ==
    IF pattern = <<>> THEN name = <<>>
    ELSE IF Head(pattern) = "*"
    THEN \/ MatchClass(Tail(pattern), name)
         \/ name # <<>> /\ Head(name) # Slash /\ MatchClass(pattern, Tail(name))
    ELSE IF Len(pattern) >= 5 /\ SubSeq(pattern, 1, 5) = Tail(DotDigit)
    THEN /\ name # <<>>
         /\ Head(name) \in Digits
         /\ MatchClass(SubSeq(pattern, 6, Len(pattern)), Tail(name))
    ELSE /\ name # <<>>
         /\ \/ Head(pattern) = "?" /\ Head(name) # Slash
            \/ Head(pattern) = Head(name)
         /\ MatchClass(Tail(pattern), Tail(name))

\* filepath.Glob(pattern): the existing paths that match
Glob(fs, pattern) == {f \in fs : MatchClass(pattern, f)}

\* what one iteration of the loop does: it creates a link or skips the
\* library
Skipped == [created |-> FALSE, link |-> <<>>, target |-> <<>>]
Created(link, target) == [created |-> TRUE, link |-> link, target |-> target]

\* os.Symlink(target, link): fails when the link path exists or cannot be
\* written
Symlink(fs, fails, target, link) ==
    IF link \in fs \/ link \in fails THEN Skipped ELSE Created(link, target)

\* the candidates of one library, linking the first one when there are several
LinkCandidateAny(fs, fails, libSoPath, libSoXPaths) ==
    IF libSoXPaths = {} THEN Skipped
    ELSE Symlink(fs, fails, Base(CHOOSE f \in libSoXPaths : TRUE), libSoPath)

\* the candidates of one library: one candidate is linked, any other number
\* is skipped
LinkCandidate(fs, fails, libSoPath, libSoXPaths) ==
    IF Cardinality(libSoXPaths) # 1 THEN Skipped
    ELSE Symlink(fs, fails, Base(CHOOSE f \in libSoXPaths : TRUE), libSoPath)

\* the body of the loop for the library lib
LinkLibrary(fs, fails, lib, ver) ==
    IF ~HasSuffix(lib, <<".", "s", "o", ".">> \o ver) THEN Skipped
    ELSE LinkCandidate(fs, fails, TrimSuffix(lib, <<".">> \o ver),
                       Glob(fs, TrimSuffix(lib, <<".">> \o ver) \o DotDigit))

\* the container files after an iteration
FilesAfter(fs, step) == IF step.created THEN fs \cup {step.link} ELSE fs
\* the links made after an iteration
LinksAfter(links, step) ==
    IF step.created THEN Append(links, [link |-> step.link, target |-> step.target])
    ELSE links

RECURSIVE LinkLibraries(_, _, _, _, _)
\* the loop over the located libraries
LinkLibraries(libs, ver, fs, fails, links) ==
    IF libs = <<>> THEN [err |-> NoError, files |-> fs, links |-> links]
    ELSE LinkLibraries(Tail(libs), ver,
                       FilesAfter(fs, LinkLibrary(fs, fails, Head(libs), ver)),
                       fails,
                       LinksAfter(links, LinkLibrary(fs, fails, Head(libs), ver)))

\* how oci.LoadContainerState and GetContainerRoot end
ContainerStates == {"loaded", "load fails", "no root"}

\* command.run
run(state, libs, ver, fs, fails) ==
    IF state = "load fails"
    THEN [err |-> Errorv("failed to load container state"), files |-> fs,
          links |-> <<>>]
    ELSE IF state = "no root"
    THEN [err |-> Errorv("failed to determined container root"), files |-> fs,
          links |-> <<>>]
    ELSE IF libs.failed
    THEN [err |-> Errorv("failed to locate libraries for driver version"),
          files |-> fs, links |-> <<>>]
    ELSE LinkLibraries(libs.val, ver, fs, fails, <<>>)

NoRun == [called |-> FALSE, err |-> NoError, links |-> <<>>]

CallRun ==
    LET r == run(containerState, locatedLibs, driverVersion, containerFiles,
                 symlinkFails)
    IN  /\ filesBefore' = containerFiles
        /\ containerFiles' = r.files
        /\ runRet' = [called |-> TRUE, err |-> r.err, links |-> r.links]
        /\ UNCHANGED <<containerState, locatedLibs, driverVersion, symlinkFails>>

---------------------------------------------------------------------------
(* internal/lookup/root/root.go: Driver.Configs *)

\* the directories "/etc", "/usr/local/share" and "/usr/share"
EtcDir == <<"/", "e", "t", "c">>
UsrLocalShare ==
    << "/", "u", "s", "r", "/", "l", "o", "c", "a", "l", "/", "s", "h", "a",
       "r", "e" >>
UsrShare == <<"/", "u", "s", "r", "/", "s", "h", "a", "r", "e">>

\* os.PathListSeparator
ListSeparator == ":"

\* search path entries: "", "/c", "/c:/e" and "/x::/y"
SearchPathEntries ==
    { <<>>, <<"/", "c">>, <<"/", "c", ":", "/", "e">>,
      <<"/", "x", ":", ":", "/", "y">> }

\* os.LookupEnv("XDG_DATA_DIRS"): unset, or set to one of the entries
XdgEnvs ==
    {[exists |-> FALSE, val |-> <<>>]} \cup
    {[exists |-> TRUE, val |-> e] : e \in SearchPathEntries}

\* the driver roots "/" and "/d"
DriverRoots == {<<Slash>>, <<Slash, "d">>}

\* filepath.SplitList: no element for the empty string, otherwise the
\* elements between the separators
SplitList(path) == IF path = <<>> THEN <<>> ELSE Split(path, ListSeparator)

RECURSIVE normalizeSearchPaths(_)
\* normalizeSearchPaths: every path expanded as a path list
normalizeSearchPaths(paths) ==
    IF paths = <<>> THEN <<>>
    ELSE SplitList(Head(paths)) \o normalizeSearchPaths(Tail(paths))

\* xdgDataDirs
xdgDataDirs(env) ==
    IF env.exists /\ env.val # <<>> THEN normalizeSearchPaths(<<env.val>>)
    ELSE <<UsrLocalShare, UsrShare>>

\* the lookup options WithRoot and WithSearchPaths
WithOptions(root, searchPaths) == [root |-> root, searchPaths |-> searchPaths]

\* configSearchOptions that searches given paths under the driver root
configSearchOptionsUnderRoot(root, paths, env) ==
    IF Len(paths) > 0 THEN WithOptions(root, normalizeSearchPaths(paths))
    ELSE WithOptions(root, <<EtcDir>> \o xdgDataDirs(env))

\* configSearchOptions
configSearchOptions(root, paths, env) ==
    IF Len(paths) > 0 THEN WithOptions(<<Slash>>, normalizeSearchPaths(paths))
    ELSE WithOptions(root, <<EtcDir>> \o xdgDataDirs(env))

NoConfigs == [called |-> FALSE, root |-> <<>>, searchPaths |-> <<>>]

\* Driver.Configs: a file locator with the config search options
CallConfigs ==
    LET o == configSearchOptions(driverRoot, configSearchPaths, xdgEnv)
    IN  /\ configsRet' =
            [called |-> TRUE, root |-> o.root, searchPaths |-> o.searchPaths]
        /\ UNCHANGED <<driverRoot, configSearchPaths, xdgEnv>>

---------------------------------------------------------------------------
(* tools/container/toolkit/toolkit.go: ValidateOptions *)

\* the values of --create-device-nodes: the three known ones and another
DeviceNodeModes == {"", "none", "control", "all"}

\* the values of CDI_KIND: a vendor and a class, no vendor, no class
CDIKinds == {"nvidia.com/gpu", "gpu", "nvidia.com/"}

\* parser.ParseQualifier: the vendor and the class of a kind
ParseQualifier(kind) ==
    CASE kind = "nvidia.com/gpu" -> [vendor |-> "nvidia.com", class |-> "gpu"]
      [] kind = "gpu" -> [vendor |-> "", class |-> "gpu"]
      [] kind = "nvidia.com/" -> [vendor |-> "nvidia.com", class |-> ""]

\* parser.ValidateVendorName and parser.ValidateClassName reject the empty
\* name
ValidateName(name) == IF name = "" THEN Errorv("empty name") ELSE NoError

\* the Options as the flags set them when nothing is given
DefaultOptions ==
    [ cdiKind |-> "nvidia.com/gpu", cdiVendor |-> "", cdiClass |-> "",
      cdiEnabled |-> FALSE, cdiOutputDir |-> "/var/run/cdi",
      createDeviceNodes |-> <<"control">> ]

\* the Options a caller can hand to ValidateOptions
OptionsOf(modes) ==
    [ cdiKind : CDIKinds, cdiVendor : {""}, cdiClass : {""},
      cdiEnabled : BOOLEAN, cdiOutputDir : {"", "/var/run/cdi"},
      createDeviceNodes : modes ]

RECURSIVE ScanModesSkipsInvalid(_)
\* the loop over the modes that lets unknown modes pass
ScanModesSkipsInvalid(modes) ==
    IF modes = <<>> THEN [invalid |-> FALSE, isDisabled |-> FALSE]
    ELSE IF Head(modes) = "" \/ Head(modes) = "none"
    THEN [invalid |-> FALSE, isDisabled |-> TRUE]
    ELSE ScanModesSkipsInvalid(Tail(modes))

RECURSIVE ScanModes(_)
\* the loop over the modes: an unknown mode is an error, "" or "none" ends
\* the loop with isDisabled set
ScanModes(modes) ==
    IF modes = <<>> THEN [invalid |-> FALSE, isDisabled |-> FALSE]
    ELSE IF Head(modes) # "" /\ Head(modes) # "none" /\ Head(modes) # "control"
    THEN [invalid |-> TRUE, isDisabled |-> FALSE]
    ELSE IF Head(modes) = "" \/ Head(modes) = "none"
    THEN [invalid |-> FALSE, isDisabled |-> TRUE]
    ELSE ScanModes(Tail(modes))

\* the Options with the vendor and class of the kind, and with CDI switched
\* off when there is no output directory
WithKind(o, kind) ==
    [o EXCEPT !.cdiVendor = kind.vendor,
              !.cdiClass = kind.class,
              !.cdiEnabled = o.cdiEnabled /\ o.cdiOutputDir # ""]

\* the end of ValidateOptions: the modes are scanned and cleared when device
\* node creation is disabled
ValidateModes(o, scan) ==
    IF scan.invalid
    THEN [err |-> Errorv("invalid --create-device-nodes value"), opts |-> o]
    ELSE IF scan.isDisabled \/ ~o.cdiEnabled
    THEN [err |-> NoError, opts |-> [o EXCEPT !.createDeviceNodes = <<>>]]
    ELSE [err |-> NoError, opts |-> o]

\* ValidateOptions(opts, toolkitRoot)
ValidateOptions(o, root) ==
    IF root = ""
    THEN [err |-> Errorv("invalid --toolkit-root option"), opts |-> o]
    ELSE IF ValidateName(ParseQualifier(o.cdiKind).vendor).failed
    THEN [err |-> Errorv("invalid CDI vendor name"), opts |-> o]
    ELSE IF ValidateName(ParseQualifier(o.cdiKind).class).failed
    THEN [err |-> Errorv("invalid CDI class name"), opts |-> o]
    ELSE ValidateModes(WithKind(o, ParseQualifier(o.cdiKind)),
                       ScanModes(o.createDeviceNodes))

NoValidate == [called |-> FALSE, err |-> NoError]

CallValidateOptions ==
    LET r == ValidateOptions(opts, toolkitRoot)
    IN  /\ optsBefore' = opts
        /\ opts' = r.opts
        /\ validateRet' = [called |-> TRUE, err |-> r.err]
        /\ UNCHANGED toolkitRoot

---------------------------------------------------------------------------
(* pkg/nvcdi/lib-vfio.go: vfiolib.GetAllDeviceSpecs *)

\* the drivers a GPU is bound to, and the IOMMU groups
PCIDrivers == {"vfio-pci", "nvidia", ""}
IommuGroups == {0, 7, 12}

\* nvpci.NvidiaPCIDevice as far as the vfio specs read it
NvidiaPCIDevices == [Driver : PCIDrivers, IommuGroup : IommuGroups]

\* the decimal digits in order
DecimalDigits == <<"0", "1", "2", "3", "4", "5", "6", "7", "8", "9">>

RECURSIVE Itoa(_)
\* fmt.Sprintf("%d", n) for n >= 0
Itoa(n) ==
    IF n < 10 THEN <<DecimalDigits[n + 1]>>
    ELSE Itoa(n \div 10) \o <<DecimalDigits[(n % 10) + 1]>>

\* the prefix "/dev/vfio/"
DevVfio == <<"/", "d", "e", "v", "/", "v", "f", "i", "o", "/">>

\* the specs.Device of the GPU at index idx
DeviceSpec(idx, dev) ==
    [ Name |-> Itoa(idx),
      ContainerEdits |->
          [DeviceNodes |-> <<[Path |-> DevVfio \o Itoa(dev.IommuGroup)]>>] ]

RECURSIVE DeviceSpecsCounted(_, _, _)
\* the loop over the GPUs that names a device by the number of specs so far
DeviceSpecsCounted(devices, idx, deviceSpecs) ==
    IF devices = <<>> THEN deviceSpecs
    ELSE IF Head(devices).Driver = "vfio-pci"
    THEN DeviceSpecsCounted(Tail(devices), idx + 1,
                            Append(deviceSpecs,
                                   DeviceSpec(Len(deviceSpecs), Head(devices))))
    ELSE DeviceSpecsCounted(Tail(devices), idx + 1, deviceSpecs)

RECURSIVE DeviceSpecsFrom(_, _, _)
\* the loop over the GPUs: idx is the index of the first of devices
DeviceSpecsFrom(devices, idx, deviceSpecs) ==
    IF devices = <<>> THEN deviceSpecs
    ELSE IF Head(devices).Driver = "vfio-pci"
    THEN DeviceSpecsFrom(Tail(devices), idx + 1,
                         Append(deviceSpecs, DeviceSpec(idx, Head(devices))))
    ELSE DeviceSpecsFrom(Tail(devices), idx + 1, deviceSpecs)

\* vfiolib.GetAllDeviceSpecs
GetAllDeviceSpecs(inventory) ==
    IF inventory.failed
    THEN [nil |-> TRUE, specs |-> <<>>, err |-> Errorv("failed getting NVIDIA GPUs")]
    ELSE [ nil |-> DeviceSpecsFrom(inventory.val, 0, <<>>) = <<>>,
           specs |-> DeviceSpecsFrom(inventory.val, 0, <<>>),
           err |-> NoError ]

NoDeviceSpecs == [called |-> FALSE, nil |-> TRUE, specs |-> <<>>, err |-> NoError]

CallGetAllDeviceSpecs ==
    LET r == GetAllDeviceSpecs(gpus)
    IN  /\ deviceSpecsRet' =
            [called |-> TRUE, nil |-> r.nil, specs |-> r.specs, err |-> r.err]
        /\ UNCHANGED gpus

---------------------------------------------------------------------------
(* Specifications *)

\* the filesystem of the applier specification: both device nodes are char
\* devices that only their group may open
ModifyFs ==
    [p \in DevPaths |->
        [ok |-> TRUE, Mode |-> S_IFCHR + 6 * 64 + 6 * 8,
         Gid |-> IF p = "/dev/a" THEN 44 ELSE 27]]

InitEdits ==
    /\ statfs \in FileSystems
    /\ allowAdditionalGIDs \in BOOLEAN
    /\ discoverer \in Discoverers
    /\ calls = <<>>
    /\ result = [called |-> FALSE, edits |-> NilEdits, err |-> NoError]
    /\ requiredGIDs = <<>>

IdleModify ==
    /\ modifier = NilApplier
    /\ modifierErr = NoError
    /\ ociSpec = EmptySpec
    /\ ociBefore = EmptySpec
    /\ modifyRet = NoModify
    /\ applies = 0

IdleEdits ==
    /\ statfs = ModifyFs
    /\ allowAdditionalGIDs = FALSE
    /\ discoverer = [devices |-> [failed |-> FALSE, val |-> <<>>],
                     mounts |-> [failed |-> FALSE, val |-> <<>>],
                     hooks |-> [failed |-> FALSE, val |-> <<>>]]
    /\ calls = <<>>
    /\ result = [called |-> FALSE, edits |-> NilEdits, err |-> NoError]
    /\ requiredGIDs = <<>>

\* root.New: nothing is cached
InitDriver ==
    /\ files \in FileLists
    /\ fsChanged = FALSE
    /\ version = <<>>
    /\ libraryRoot = <<>>
    /\ mutex = NoHolder
    /\ pc = [g \in Goroutines |-> Idle]
    /\ local = [g \in Goroutines |-> NoLocal]
    /\ lastRet = NoReturn
    /\ probes = [op \in Ops |-> 0]
    /\ versionsReturned = {}
    /\ ncalls = 0

IdleDriver ==
    /\ files = <<>>
    /\ fsChanged = FALSE
    /\ version = <<>>
    /\ libraryRoot = <<>>
    /\ mutex = NoHolder
    /\ pc = [g \in Goroutines |-> Idle]
    /\ local = [g \in Goroutines |-> NoLocal]
    /\ lastRet = NoReturn
    /\ probes = [op \in Ops |-> 0]
    /\ versionsReturned = {}
    /\ ncalls = 0

\* no call of the toolkit container was made
IdleHost ==
    /\ hostFiles = [p \in ProbedPaths |-> "absent"]
    /\ hostRoot = <<Slash>>
    /\ packageType = "deb"
    /\ resolveRet = NoResolve
    /\ newRet = NoNew

IdleInstaller ==
    /\ libraries = [failed |-> FALSE, val |-> <<>>]
    /\ executables = [failed |-> FALSE, val |-> <<>>]
    /\ installerRet = NoInstallerRet
    /\ executed = <<>>

IdleInstall ==
    /\ ignoreErrors = FALSE
    /\ stepFails = {}
    /\ installRet = NoInstall

IdleDelete ==
    /\ toolkitDir = [state |-> "missing", entries |-> {}]
    /\ removeFails = {}
    /\ dirBefore = [state |-> "missing", entries |-> {}]
    /\ tryDeleteRet = NoTryDelete

IdleToolkit == IdleHost /\ IdleInstaller /\ IdleInstall /\ IdleDelete

IdleFeatures ==
    /\ features = [ GDS |-> NilFeature, MOFED |-> NilFeature,
                    NVSWITCH |-> NilFeature, GDRCopy |-> NilFeature,
                    AllowAdditionalGIDs |-> NilFeature ]
    /\ envs = <<>>
    /\ featureName = FeatureGDS
    /\ isEnabledRet = NoIsEnabled

IdleLdconfig ==
    /\ mountsFrom = [failed |-> FALSE, val |-> <<>>]
    /\ lookup = [failed |-> FALSE, val |-> <<>>]
    /\ hooksRet = NoHooks

IdleSymlinks ==
    /\ containerState = "loaded"
    /\ containerFiles = {}
    /\ locatedLibs = [failed |-> FALSE, val |-> <<>>]
    /\ driverVersion = <<"1">>
    /\ symlinkFails = {}
    /\ filesBefore = {}
    /\ runRet = NoRun

IdleConfigs ==
    /\ driverRoot = <<Slash>>
    /\ configSearchPaths = <<>>
    /\ xdgEnv = [exists |-> FALSE, val |-> <<>>]
    /\ configsRet = NoConfigs

IdleLibName ==
    /\ askedName = <<>>
    /\ isLibNameRet = NoIsLibName

IdleFolders ==
    /\ libraryPaths = <<>>
    /\ uniqueFoldersRet = NoUniqueFolders

IdleValidate ==
    /\ toolkitRoot = "/usr/local/nvidia/toolkit"
    /\ opts = DefaultOptions
    /\ optsBefore = DefaultOptions
    /\ validateRet = NoValidate

IdleVfio ==
    /\ gpus = [failed |-> FALSE, val |-> <<>>]
    /\ deviceSpecsRet = NoDeviceSpecs

\* no hook command was run, no config locator was built, no name was
\* looked at, no options were validated and no device spec was asked for
IdleCommands ==
    /\ IdleSymlinks /\ IdleConfigs /\ IdleLibName /\ IdleFolders /\ IdleValidate
    /\ IdleVfio

\* the variables outside the toolkit container
libraryVars ==
    <<editsVars, modifyVars, driverVars, featuresVars, ldconfigVars, commandVars>>

IdleLibrary ==
    /\ IdleEdits /\ IdleModify /\ IdleDriver /\ IdleFeatures /\ IdleLdconfig
    /\ IdleCommands

NextEdits == CallEditsFromDiscoverer /\ UNCHANGED <<modifyVars, driverVars, toolkitVars, commandVars, featuresVars, ldconfigVars>>

\* the edit composer: one discoverer, one host filesystem, one call
InitSpecEdits ==
    InitEdits /\ IdleModify /\ IdleDriver /\ IdleToolkit /\ IdleCommands /\ IdleFeatures /\ IdleLdconfig

SpecEdits == InitSpecEdits /\ [][NextEdits]_vars

InitModify ==
    /\ statfs = ModifyFs
    /\ allowAdditionalGIDs \in BOOLEAN
    /\ discoverer \in {d \in Discoverers : Len(d.devices.val) <= MaxEntries}
    /\ calls = <<>>
    /\ result = [called |-> FALSE, edits |-> NilEdits, err |-> NoError]
    /\ requiredGIDs = <<>>
    /\ modifier \in {NilApplier, ZeroApplier}
    /\ modifierErr = NoError
    /\ ociSpec \in InitialSpecs
    /\ ociBefore = ociSpec
    /\ modifyRet = NoModify
    /\ applies = 0

NextModify ==
    \/ CallSpecModifierFromDiscoverer /\ UNCHANGED <<editsVars, driverVars, toolkitVars, commandVars, featuresVars, ldconfigVars>>
    \/ CallModify /\ UNCHANGED <<editsVars, driverVars, toolkitVars, commandVars, featuresVars, ldconfigVars>>

\* the applier: built from a discoverer and applied to an OCI spec
InitSpecModify ==
    InitModify /\ IdleDriver /\ IdleToolkit /\ IdleCommands /\ IdleFeatures /\ IdleLdconfig

SpecModify == InitSpecModify /\ [][NextModify]_vars

NextDriver ==
    \/ \E g \in Goroutines : Call(g) /\ UNCHANGED <<editsVars, modifyVars, toolkitVars, commandVars, featuresVars, ldconfigVars>>
    \/ \E g \in Goroutines : Lock(g) /\ UNCHANGED <<editsVars, modifyVars, toolkitVars, commandVars, featuresVars, ldconfigVars>>
    \/ \E g \in Goroutines : Probe(g) /\ UNCHANGED <<editsVars, modifyVars, toolkitVars, commandVars, featuresVars, ldconfigVars>>
    \/ \E g \in Goroutines : Store(g) /\ UNCHANGED <<editsVars, modifyVars, toolkitVars, commandVars, featuresVars, ldconfigVars>>
    \/ ChangeFiles /\ UNCHANGED <<editsVars, modifyVars, toolkitVars, commandVars, featuresVars, ldconfigVars>>

\* goroutines sharing one Driver over library files that may change
InitSpecDriver ==
    InitDriver /\ IdleEdits /\ IdleModify /\ IdleToolkit /\ IdleCommands /\ IdleFeatures /\ IdleLdconfig

SpecDriver == InitSpecDriver /\ [][NextDriver]_vars

---------------------------------------------------------------------------
(* Specifications of the toolkit container *)

InitHost ==
    /\ hostFiles \in HostFileSystems
    /\ hostRoot \in HostRoots
    /\ packageType \in PackageTypes
    /\ resolveRet = NoResolve
    /\ newRet = NoNew

NextPackageType ==
    \/ CallResolvePackageType
        /\ UNCHANGED <<libraryVars, installerVars, installVars, deleteVars>>
    \/ CallNew
        /\ UNCHANGED <<libraryVars, installerVars, installVars, deleteVars>>

\* the package type of a host: resolvePackageType and installer.New
InitSpecPackageType ==
    InitHost /\ IdleInstaller /\ IdleInstall /\ IdleDelete /\ IdleLibrary

SpecPackageType == InitSpecPackageType /\ [][NextPackageType]_vars

InitInstaller ==
    /\ libraries \in Collections(LibraryInstallers, MaxInstallers)
    /\ executables \in Collections(ExecutableInstallers, MaxInstallers)
    /\ installerRet = NoInstallerRet
    /\ executed = <<>>

NextInstaller ==
    CallInstallerInstall /\ UNCHANGED <<libraryVars, hostVars, installVars, deleteVars>>

\* the installer: one toolkitInstaller.Install over what the collectors return
InitSpecInstaller ==
    InitInstaller /\ IdleHost /\ IdleInstall /\ IdleDelete /\ IdleLibrary

SpecInstaller == InitSpecInstaller /\ [][NextInstaller]_vars

\* toolkit.Install on the host root "/": the package managers are there or
\* not, and the installer collects one library and one executable
InitInstall ==
    /\ hostFiles \in {fs \in HostFileSystems :
                        \A p \in ProbedPaths :
                            /\ fs[p] # "dir"
                            /\ p \notin {RpmPath, DpkgPath} => fs[p] = "absent"}
    /\ hostRoot = <<Slash>>
    /\ packageType \in {"auto", "deb", "apk"}
    /\ resolveRet = NoResolve
    /\ newRet = NoNew
    /\ libraries \in Collections(LibraryInstallers, 1)
    /\ executables \in {e \in Collections(ExecutableInstallers, 1) : ~e.failed}
    /\ installerRet = NoInstallerRet
    /\ executed = <<>>
    /\ ignoreErrors \in BOOLEAN
    /\ stepFails \in SUBSET HostSteps
    /\ installRet = NoInstall

NextInstall ==
    CallInstall /\ UNCHANGED <<libraryVars, hostVars, installerVars, deleteVars>>

InitSpecInstall == InitInstall /\ IdleDelete /\ IdleLibrary

SpecInstall == InitSpecInstall /\ [][NextInstall]_vars

InitDelete ==
    /\ toolkitDir \in ToolkitDirs
    /\ removeFails \in SUBSET (EntryNames \cup {RootName})
    /\ dirBefore = toolkitDir
    /\ tryDeleteRet = NoTryDelete

NextDelete ==
    CallTryDelete /\ UNCHANGED <<libraryVars, hostVars, installerVars, installVars>>

\* TryDelete on a toolkit root
InitSpecDelete ==
    InitDelete /\ IdleHost /\ IdleInstaller /\ IdleInstall /\ IdleLibrary

SpecDelete == InitSpecDelete /\ [][NextDelete]_vars

---------------------------------------------------------------------------
(* Specifications of the features and of the ldcache-update discoverer *)

InitFeatures ==
    /\ features \in FeatureConfigs
    /\ envs \in SeqsUpTo(Environments, MaxEnvs)
    /\ featureName \in FeatureNames
    /\ isEnabledRet = NoIsEnabled

NextFeatures ==
    CallIsEnabled
        /\ UNCHANGED <<editsVars, modifyVars, driverVars, toolkitVars, commandVars,
                     ldconfigVars>>

\* one IsEnabled call on a configuration and a list of environments
InitSpecFeatures ==
    InitFeatures /\ IdleEdits /\ IdleModify /\ IdleDriver /\ IdleToolkit /\ IdleCommands /\ IdleLdconfig

SpecFeatures == InitSpecFeatures /\ [][NextFeatures]_vars

InitLdconfig ==
    /\ mountsFrom \in Outcomes(LibraryMounts, MaxMounts)
    /\ lookup \in LocateOutcomes
    /\ hooksRet = NoHooks

NextLdconfig ==
    CallHooks
        /\ UNCHANGED <<editsVars, modifyVars, driverVars, toolkitVars, commandVars, featuresVars>>

\* one Hooks() call of the ldcache-update discoverer on a wrapped discoverer
InitSpecLdconfig ==
    InitLdconfig /\ IdleEdits /\ IdleModify /\ IdleDriver /\ IdleToolkit /\ IdleCommands /\ IdleFeatures

SpecLdconfig == InitSpecLdconfig /\ [][NextLdconfig]_vars

---------------------------------------------------------------------------
(* Specifications of the hook commands *)

\* the locator returns files of the container: libraries of the driver
\* version and files their symlinks resolve to
InitSymlinks ==
    /\ containerState \in ContainerStates
    /\ containerFiles \in SUBSET ContainerPaths
    /\ locatedLibs \in Outcomes(containerFiles \ {LibxSo, Libx2}, MaxLibs)
    /\ driverVersion \in DriverVersions
    /\ symlinkFails \in SUBSET {LibySo}
    /\ filesBefore = containerFiles
    /\ runRet = NoRun

NextSymlinks ==
    CallRun
        /\ UNCHANGED <<editsVars, modifyVars, driverVars, toolkitVars, featuresVars,
                       ldconfigVars, configsVars, libNameVars, foldersVars,
                       validateVars, vfioVars>>

\* one run of create-dot-so-symlinks in a container
InitSpecSymlinks ==
    /\ InitSymlinks
    /\ IdleEdits /\ IdleModify /\ IdleDriver /\ IdleToolkit /\ IdleFeatures
    /\ IdleLdconfig /\ IdleConfigs /\ IdleLibName /\ IdleFolders /\ IdleValidate
    /\ IdleVfio

SpecSymlinks == InitSpecSymlinks /\ [][NextSymlinks]_vars

InitConfigs ==
    /\ driverRoot \in DriverRoots
    /\ configSearchPaths \in SeqsUpTo(SearchPathEntries, MaxSearchPaths)
    /\ xdgEnv \in XdgEnvs
    /\ configsRet = NoConfigs

NextConfigs ==
    CallConfigs
        /\ UNCHANGED <<editsVars, modifyVars, driverVars, toolkitVars, featuresVars,
                       ldconfigVars, symlinkVars, libNameVars, foldersVars,
                       validateVars, vfioVars>>

\* one Configs() call on a Driver
InitSpecConfigs ==
    /\ InitConfigs
    /\ IdleEdits /\ IdleModify /\ IdleDriver /\ IdleToolkit /\ IdleFeatures
    /\ IdleLdconfig /\ IdleSymlinks /\ IdleLibName /\ IdleFolders /\ IdleValidate
    /\ IdleVfio

SpecConfigs == InitSpecConfigs /\ [][NextConfigs]_vars

---------------------------------------------------------------------------
(* Specifications of the library names and folders *)

InitLibName ==
    /\ askedName \in FileNames
    /\ isLibNameRet = NoIsLibName

NextLibName ==
    CallIsLibName
        /\ UNCHANGED <<editsVars, modifyVars, driverVars, toolkitVars, featuresVars,
                       ldconfigVars, symlinkVars, configsVars, foldersVars,
                       validateVars, vfioVars>>

\* one isLibName call on a file name
InitSpecLibName ==
    /\ InitLibName
    /\ IdleEdits /\ IdleModify /\ IdleDriver /\ IdleToolkit /\ IdleFeatures
    /\ IdleLdconfig /\ IdleSymlinks /\ IdleConfigs /\ IdleFolders /\ IdleValidate
    /\ IdleVfio

SpecLibName == InitSpecLibName /\ [][NextLibName]_vars

InitFolders ==
    /\ libraryPaths \in SeqsUpTo(FilePaths, MaxPaths)
    /\ uniqueFoldersRet = NoUniqueFolders

NextFolders ==
    CallUniqueFolders
        /\ UNCHANGED <<editsVars, modifyVars, driverVars, toolkitVars, featuresVars,
                       ldconfigVars, symlinkVars, configsVars, libNameVars,
                       validateVars, vfioVars>>

\* one uniqueFolders call on a list of files
InitSpecFolders ==
    /\ InitFolders
    /\ IdleEdits /\ IdleModify /\ IdleDriver /\ IdleToolkit /\ IdleFeatures
    /\ IdleLdconfig /\ IdleSymlinks /\ IdleConfigs /\ IdleLibName /\ IdleValidate
    /\ IdleVfio

SpecFolders == InitSpecFolders /\ [][NextFolders]_vars

---------------------------------------------------------------------------
(* Specifications of the options *)

InitValidate ==
    /\ toolkitRoot \in {"", "/usr/local/nvidia/toolkit"}
    /\ opts \in OptionsOf(SeqsUpTo(DeviceNodeModes, MaxModes))
    /\ optsBefore = opts
    /\ validateRet = NoValidate

NextValidate ==
    CallValidateOptions
        /\ UNCHANGED <<editsVars, modifyVars, driverVars, toolkitVars, featuresVars,
                       ldconfigVars, symlinkVars, configsVars, libNameVars,
                       foldersVars, vfioVars>>

\* one ValidateOptions call on the options of a command line
InitSpecValidate ==
    /\ InitValidate
    /\ IdleEdits /\ IdleModify /\ IdleDriver /\ IdleToolkit /\ IdleFeatures
    /\ IdleLdconfig /\ IdleSymlinks /\ IdleConfigs /\ IdleLibName /\ IdleFolders
    /\ IdleVfio

SpecValidate == InitSpecValidate /\ [][NextValidate]_vars

---------------------------------------------------------------------------
(* Specifications of the vfio device specs *)

InitVfio ==
    /\ gpus \in Outcomes(NvidiaPCIDevices, MaxGPUs)
    /\ deviceSpecsRet = NoDeviceSpecs

NextVfio ==
    CallGetAllDeviceSpecs
        /\ UNCHANGED <<editsVars, modifyVars, driverVars, toolkitVars, featuresVars,
                       ldconfigVars, symlinkVars, configsVars, libNameVars,
                       foldersVars, validateVars>>

\* one GetAllDeviceSpecs call on a PCI inventory
InitSpecVfio ==
    /\ InitVfio
    /\ IdleEdits /\ IdleModify /\ IdleDriver /\ IdleToolkit /\ IdleFeatures
    /\ IdleLdconfig /\ IdleSymlinks /\ IdleConfigs /\ IdleLibName /\ IdleFolders
    /\ IdleValidate

SpecVfio == InitSpecVfio /\ [][NextVfio]_vars

---------------------------------------------------------------------------
(* Properties of the edit composer *)

\* the path getRequiredGID stats for a device
StatPath(dev) == IF dev.HostPath # "" THEN dev.HostPath ELSE dev.Path

\* the device's stat path is a char-special file that 'other' may neither
\* read nor write, owned by group g
NeedsGroup(dev, fs, g) ==
    LET st == Lstat(fs, StatPath(dev))
    IN  /\ StatPath(dev) # ""
        /\ st.ok
        /\ (st.Mode \div 4096) % 16 = 2
        /\ st.Mode % 8 \in {0, 1}
        /\ st.Gid = g

AllGids == {0, 27, 44}

Built == result.called /\ ~result.edits.nil

FailingPhase ==
    IF discoverer.devices.failed THEN "devices"
    ELSE IF discoverer.mounts.failed THEN "mounts"
    ELSE IF discoverer.hooks.failed THEN "hooks"
    ELSE "none"

\* C1: EditsFromDiscoverer never returns a partial edit set: when Devices(),
\* Mounts() or Hooks() fails the call returns a nil edit set and an error
\* that wraps the failure and names the failing phase, whatever the other
\* phases hold; when none fails it returns an edit set and no error.
C1_NoPartialEdits ==
    result.called =>
        IF FailingPhase = "none"
        THEN ~result.edits.nil /\ ~result.err.failed
        ELSE /\ result.edits.nil
             /\ result.err.failed
             /\ result.err.wraps = FailingPhase
             /\ result.err.msg =
                    CASE FailingPhase = "devices" -> "failed to discover devices"
                      [] FailingPhase = "mounts" -> "failed to discover mounts"
                      [] FailingPhase = "hooks" -> "failed to discover hooks"

\* Mounts() failed after Devices() returned devices: nothing is returned
C1_Witness ==
    /\ result.called
    /\ ~discoverer.devices.failed
    /\ Len(discoverer.devices.val) > 0
    /\ discoverer.mounts.failed
    /\ ~discoverer.hooks.failed
    /\ result.edits.nil

\* C2 (as stated): with additional GIDs enabled, every group id g, 0
\* included, is in AdditionalGIDs if and only if it owns a discovered char
\* device that 'other' may neither read nor write.
C2_EveryOwningGroup ==
    (Built /\ allowAdditionalGIDs) =>
        \A g \in AllGids \cup Range(result.edits.edits.AdditionalGIDs) :
            g \in Range(result.edits.edits.AdditionalGIDs)
            <=> \E i \in DOMAIN discoverer.devices.val :
                    NeedsGroup(discoverer.devices.val[i], statfs, g)

\* C2 (amended): with additional GIDs enabled, every group id g other than
\* 0 is in AdditionalGIDs if and only if it owns a discovered char device
\* that 'other' may neither read nor write; group id 0 is never added.
C2_NonzeroOwningGroup ==
    (Built /\ allowAdditionalGIDs) =>
        /\ 0 \notin Range(result.edits.edits.AdditionalGIDs)
        /\ \A g \in (AllGids \cup Range(result.edits.edits.AdditionalGIDs)) \ {0} :
            g \in Range(result.edits.edits.AdditionalGIDs)
            <=> \E i \in DOMAIN discoverer.devices.val :
                    NeedsGroup(discoverer.devices.val[i], statfs, g)

\* one device needs its group, another needs none: exactly one group is added
C2_Witness ==
    /\ Built
    /\ allowAdditionalGIDs
    /\ \E i, j \in DOMAIN discoverer.devices.val :
        /\ NeedsGroup(discoverer.devices.val[i], statfs, 27)
        /\ \A g \in AllGids : ~NeedsGroup(discoverer.devices.val[j], statfs, g)
    /\ result.edits.edits.AdditionalGIDs = <<27>>

\* C3: with additional GIDs not enabled the edit set has no additional
\* GIDs, whatever the ownership and permissions of the device nodes.
C3_DisabledNoGIDs ==
    (Built /\ ~allowAdditionalGIDs) => result.edits.edits.AdditionalGIDs = <<>>

\* the option is off and a discovered device is private to group 44
C3_Witness ==
    /\ Built
    /\ ~allowAdditionalGIDs
    /\ \E i \in DOMAIN discoverer.devices.val :
        NeedsGroup(discoverer.devices.val[i], statfs, 44)

\* C4: the i-th device node carries the i-th device's Path; its HostPath
\* is empty when the device's HostPath equals its Path, and is the device's
\* HostPath, distinct from the Path, otherwise.
C4_HostPathCollapse ==
    Built =>
        /\ Len(result.edits.edits.DeviceNodes) = Len(discoverer.devices.val)
        /\ \A i \in DOMAIN discoverer.devices.val :
            LET dev == discoverer.devices.val[i]
                node == result.edits.edits.DeviceNodes[i]
            IN  /\ node.Path = dev.Path
                /\ dev.HostPath = dev.Path => node.HostPath = ""
                /\ dev.HostPath # dev.Path =>
                    node.HostPath = dev.HostPath /\ node.HostPath # node.Path

\* a device with HostPath = Path and one with a different HostPath
C4_Witness ==
    /\ Built
    /\ \E i, j \in DOMAIN discoverer.devices.val :
        /\ discoverer.devices.val[i].HostPath = "/dev/a"
        /\ discoverer.devices.val[i].Path = "/dev/a"
        /\ result.edits.edits.DeviceNodes[i].HostPath = ""
        /\ discoverer.devices.val[j].HostPath = "/dev/b"
        /\ result.edits.edits.DeviceNodes[j].HostPath = "/dev/b"

---------------------------------------------------------------------------
(* Properties of the Driver *)

\* goroutine g is between Lock and Unlock
Inside(g) == pc[g].at \in {"locked", "located"}

LibcudaPresent == ~Locate(files, LibcudaPattern).err

\* the files a libcuda.so.*.* lookup can locate
MatchingFiles == {f \in LibraryFiles : Match(LibcudaPattern, Base(f))}

\* C5: at most one goroutine at a time is between Lock and Unlock of
\* Version() or LibraryRoot(); with libcuda present and the files unchanged,
\* Version() calls libcudaPath() at most once, exactly once when a Version()
\* call has returned, and all Version() calls return the same value.
C5_SerializedProbe ==
    /\ Cardinality({g \in Goroutines : Inside(g)}) <= 1
    /\ (~fsChanged /\ LibcudaPresent) =>
        /\ probes["Version"] <= 1
        /\ Cardinality(versionsReturned) <= 1
        /\ versionsReturned # {} => probes["Version"] = 1

\* one goroutine got the cached version while another is inside LibraryRoot()
C5_Witness ==
    /\ ~fsChanged
    /\ LibcudaPresent
    /\ lastRet.op = "Version"
    /\ ~lastRet.probed
    /\ ~lastRet.err
    /\ probes["Version"] = 1
    /\ \E h \in Goroutines :
        h # lastRet.g /\ Inside(h) /\ pc[h].op = "LibraryRoot"

\* the step in which goroutine g returns
Returns(g) == Inside(g) /\ pc'[g] = Idle

\* C6: once version (libraryRoot) is cached it never changes, calls return
\* it and libcudaPath() is not called again for it, whatever happens to the
\* files; a failing call leaves the cache empty, and a call that finds the
\* cache empty calls libcudaPath().
C6_CachedForever ==
    [][ /\ version # <<>> =>
            version' = version /\ probes'["Version"] = probes["Version"]
        /\ libraryRoot # <<>> =>
            libraryRoot' = libraryRoot
            /\ probes'["LibraryRoot"] = probes["LibraryRoot"]
        /\ \A g \in Goroutines :
            /\ Returns(g) =>
                /\ (pc[g].op = "Version" /\ version # <<>>) =>
                        ~lastRet'.err /\ lastRet'.val = version
                /\ (pc[g].op = "LibraryRoot" /\ libraryRoot # <<>>) =>
                        ~lastRet'.err /\ lastRet'.val = libraryRoot
                /\ (pc[g].op = "Version" /\ lastRet'.err) => version' = <<>>
                /\ (pc[g].op = "LibraryRoot" /\ lastRet'.err) => libraryRoot' = <<>>
            /\ (pc[g].at = "locked" /\ pc'[g] # pc[g]) =>
                /\ (pc[g].op = "Version" /\ version = <<>>) =>
                        probes'["Version"] = probes["Version"] + 1
                /\ (pc[g].op = "LibraryRoot" /\ libraryRoot = <<>>) =>
                        probes'["LibraryRoot"] = probes["LibraryRoot"] + 1
      ]_vars

\* Version() returned the cached value after libcuda had gone
C6_Witness ==
    /\ fsChanged
    /\ ~LibcudaPresent
    /\ lastRet.op = "Version"
    /\ ~lastRet.probed
    /\ ~lastRet.err
    /\ lastRet.val = version
    /\ probes["Version"] = 1

\* C7 (as stated): whenever both are cached there is one libcuda path p
\* with version the part of base(p) after "libcuda.so." and libraryRoot
\* dir(p).
C7_SamePath ==
    (version # <<>> /\ libraryRoot # <<>>) =>
        \E p \in MatchingFiles :
            /\ version = TrimPrefix(Base(p), LibcudaPrefix)
            /\ libraryRoot = Dir(p)

\* C7 (amended): whenever both are cached and the files did not change
\* since the Driver was built, the first located libcuda path p has version
\* the part of base(p) after "libcuda.so." and libraryRoot dir(p).
C7_SamePathStable ==
    (version # <<>> /\ libraryRoot # <<>> /\ ~fsChanged) =>
        \E p \in MatchingFiles :
            /\ p = Locate(files, LibcudaPattern).paths[1]
            /\ version = TrimPrefix(Base(p), LibcudaPrefix)
            /\ libraryRoot = Dir(p)

\* both are cached from unchanged files that hold two libcuda libraries
C7_Witness ==
    /\ version # <<>>
    /\ libraryRoot # <<>>
    /\ ~fsChanged
    /\ Len(Locate(files, LibcudaPattern).paths) = 2

\* C8: a Version() call that looks libcuda up fails when the locator finds
\* no libcuda.so.*.*; otherwise it takes the first located path and returns
\* the part of its base name after "libcuda.so.", failing when that part is
\* empty; a successful Version() never returns the empty string.
C8_VersionFromFirst ==
    /\ (lastRet.op = "Version" /\ lastRet.probed) =>
        IF lastRet.located.err
        THEN lastRet.err
        ELSE LET base == Base(lastRet.located.paths[1])
                 part == SubSeq(base, Len(LibcudaPrefix) + 1, Len(base))
             IN  /\ HasPrefix(base, LibcudaPrefix)
                 /\ part = <<>> => lastRet.err
                 /\ part # <<>> => ~lastRet.err /\ lastRet.val = part
    /\ (lastRet.op = "Version" /\ ~lastRet.err) => lastRet.val # <<>>

\* Version() returned 3.4 from the first of two located libraries
C8_Witness ==
    /\ lastRet.op = "Version"
    /\ lastRet.probed
    /\ Len(lastRet.located.paths) = 2
    /\ lastRet.located.paths[1] = LibB34
    /\ lastRet.val = <<"3", ".", "4">>

---------------------------------------------------------------------------
(* Properties of the applier *)

IsPrefix(s, t) == Len(s) <= Len(t) /\ \A i \in DOMAIN s : s[i] = t[i]

NilModifier(e) == e.nil \/ e.ContainerEdits.nil

\* C9: Modify on a nil applier, or on an applier whose edit set is nil,
\* returns no error and leaves the OCI spec as it was.
C9_NilModifyNoOp ==
    (modifyRet.called /\ NilModifier(modifyRet.applier)) =>
        ~modifyRet.err.failed /\ ociSpec = ociBefore

\* Modify ran on the zero-value applier with a populated spec
C9_Witness ==
    /\ modifyRet.called
    /\ ~modifyRet.applier.nil
    /\ modifyRet.applier.ContainerEdits.nil
    /\ ociSpec = PopulatedSpec

\* C10: Modify with an edit set keeps every entry the spec held, in place,
\* in mounts, hooks, linux.devices, linux.resources.devices and
\* additionalGids; when the apply primitive succeeds the edit set's mounts,
\* hooks, device nodes and additional GIDs are in the spec; Modify fails
\* exactly when the apply primitive fails.
C10_ModifyAddsOnly ==
    (modifyRet.called /\ ~NilModifier(modifyRet.applier)) =>
        LET e == modifyRet.applier.ContainerEdits.edits
        IN  /\ IsPrefix(ociBefore.mounts, ociSpec.mounts)
            /\ IsPrefix(ociBefore.hooks, ociSpec.hooks)
            /\ IsPrefix(ociBefore.devices, ociSpec.devices)
            /\ IsPrefix(ociBefore.resourcesDevices, ociSpec.resourcesDevices)
            /\ IsPrefix(ociBefore.additionalGids, ociSpec.additionalGids)
            /\ modifyRet.err.failed <=> modifyRet.applyFails
            /\ ~modifyRet.err.failed =>
                /\ Range(e.Mounts) \subseteq Range(ociSpec.mounts)
                /\ Range(e.Hooks) \subseteq Range(ociSpec.hooks)
                /\ Range(e.DeviceNodes) \subseteq Range(ociSpec.devices)
                /\ Range(e.AdditionalGIDs) \subseteq Range(ociSpec.additionalGids)
                /\ Len(ociSpec.mounts) = Len(ociBefore.mounts) + Len(e.Mounts)
                /\ Len(ociSpec.devices) = Len(ociBefore.devices) + Len(e.DeviceNodes)

\* an edit set with a device, a mount, a hook and a group id was merged into
\* a populated spec
C10_Witness ==
    /\ modifyRet.called
    /\ ~NilModifier(modifyRet.applier)
    /\ ~modifyRet.err.failed
    /\ ociBefore = PopulatedSpec
    /\ Len(ociSpec.mounts) = 2
    /\ Len(ociSpec.hooks) = 2
    /\ Len(ociSpec.devices) = 2
    /\ Len(ociSpec.additionalGids) = 2

---------------------------------------------------------------------------
(* Properties of the edit composer: discovery order and composition *)

DiscoveryOrder == <<"Devices", "Mounts", "Hooks">>

\* C11: EditsFromDiscoverer invokes Devices(), then Mounts(), then Hooks(),
\* in that order and each at most once: the methods invoked are a prefix of
\* that order, which ends at the first method that fails.
C11_DiscoveryOrder ==
    /\ ~result.called => calls = <<>>
    /\ result.called =>
        /\ IsPrefix(calls, DiscoveryOrder)
        /\ Len(calls) >= 1
        /\ discoverer.devices.failed => calls = <<"Devices">>
        /\ (~discoverer.devices.failed /\ discoverer.mounts.failed) =>
                calls = <<"Devices", "Mounts">>
        /\ (~discoverer.devices.failed /\ ~discoverer.mounts.failed) =>
                calls = DiscoveryOrder

\* Devices() failed on a discoverer whose Mounts() and Hooks() would have
\* succeeded: only Devices() was invoked
C11_Witness ==
    /\ result.called
    /\ discoverer.devices.failed
    /\ ~discoverer.mounts.failed
    /\ ~discoverer.hooks.failed
    /\ calls = <<"Devices">>

\* C12: when Devices(), Mounts() and Hooks() succeed with n devices, m mounts
\* and k hooks, the edit set is not nil and has exactly n device nodes, the
\* i-th one for the i-th device, exactly the m mounts and exactly the k
\* hooks; a discoverer that returns nothing gives an empty, non-nil edit set.
C12_OneEditPerEntry ==
    (result.called /\ FailingPhase = "none") =>
        LET e == result.edits.edits
        IN  /\ ~result.edits.nil
            /\ Len(e.DeviceNodes) = Len(discoverer.devices.val)
            /\ \A i \in DOMAIN discoverer.devices.val :
                e.DeviceNodes[i].Path = discoverer.devices.val[i].Path
            /\ e.Mounts = discoverer.mounts.val
            /\ e.Hooks = discoverer.hooks.val
            /\ (Len(discoverer.devices.val) + Len(discoverer.mounts.val)
                    + Len(discoverer.hooks.val) = 0) => e = NewContainerEdits

\* two devices of different paths, one mount and one hook were composed
C12_Witness ==
    /\ Built
    /\ Len(discoverer.devices.val) = MaxDevices
    /\ discoverer.devices.val[1].Path # discoverer.devices.val[MaxDevices].Path
    /\ Len(result.edits.edits.DeviceNodes) = MaxDevices
    /\ Len(result.edits.edits.Mounts) = 1
    /\ Len(result.edits.edits.Hooks) = 1

\* the file type and the 'other' read and write bits of a stat
IsCharSpecial(st) == (st.Mode \div 4096) % 16 = 2
OtherReadOrWrite(st) == (st.Mode % 8) \div 2 # 0

\* C13: getRequiredGID stats HostPath if it is set and Path otherwise; it
\* returns 0 when both are empty, when the stat fails, when the file is not
\* char-special and when 'other' may read or write; it returns the owning
\* group id when the file is char-special and 'other' may do neither.
C13_RequiredGID ==
    (Built /\ allowAdditionalGIDs) =>
        /\ Len(requiredGIDs) = Len(discoverer.devices.val)
        /\ \A i \in DOMAIN discoverer.devices.val :
            LET dev == discoverer.devices.val[i]
                st == Lstat(statfs, StatPath(dev))
            IN  requiredGIDs[i] =
                    IF StatPath(dev) = "" THEN 0
                    ELSE IF ~st.ok THEN 0
                    ELSE IF ~IsCharSpecial(st) THEN 0
                    ELSE IF OtherReadOrWrite(st) THEN 0
                    ELSE st.Gid

\* in one call: a regular file that only its group may open gives 0, and a
\* device whose HostPath is such a char device gives its group
C13_Witness ==
    /\ Built
    /\ allowAdditionalGIDs
    /\ \E i, j \in DOMAIN discoverer.devices.val :
        /\ StatPath(discoverer.devices.val[i]) = "/dev/a"
        /\ statfs["/dev/a"].ok
        /\ ~IsCharSpecial(statfs["/dev/a"])
        /\ ~OtherReadOrWrite(statfs["/dev/a"])
        /\ requiredGIDs[i] = 0
        /\ discoverer.devices.val[j].HostPath = "/dev/b"
        /\ discoverer.devices.val[j].Path = "/dev/a"
        /\ requiredGIDs[j] = 27

---------------------------------------------------------------------------
(* Properties of the toolkit container *)

\* C14 (as stated): with ignoreErrors set, toolkit.Install attempts every
\* one of its seven steps, whichever of them fail, and returns nil; it does
\* not panic.
C14_IgnoredErrorsReturnNil ==
    (installRet.called /\ ignoreErrors) =>
        /\ installRet.ret.kind = "nil"
        /\ installRet.ret.attempted = InstallSteps

\* the names of the installers of a list, in order
Names(installers) == [i \in DOMAIN installers |-> installers[i].name]

\* the errors of the installers of a list that fail, in order
RECURSIVE Failures(_)
Failures(installers) ==
    IF installers = <<>> THEN <<>>
    ELSE IF Head(installers).fails
    THEN <<Errorv(Head(installers).name)>> \o Failures(Tail(installers))
    ELSE Failures(Tail(installers))

\* C15 (as stated): toolkitInstaller.Install runs every collected installer
\* exactly once, the libraries first and then the executables; it returns
\* nil if and only if every installer succeeded, and otherwise an error
\* that joins each failure.
C15_RunsEveryCollected ==
    installerRet.called =>
        /\ executed = Names(libraries.val) \o Names(executables.val)
        /\ ~installerRet.err.failed
            <=> Failures(libraries.val \o executables.val) = <<>>
        /\ installerRet.err.joined = Failures(libraries.val \o executables.val)

\* C15 (amended): when collectLibraries and collectExecutables both succeed,
\* toolkitInstaller.Install runs every collected installer exactly once, the
\* libraries first, and returns nil if and only if every installer
\* succeeded, and otherwise the failures joined in order; when a collection
\* fails it runs no installer and returns the wrapped collection error.
C15_RunsAllOnceCollected ==
    installerRet.called =>
        IF libraries.failed
        THEN /\ executed = <<>>
             /\ installerRet.err = WrappedError("failed to collect libraries", "libraries")
        ELSE IF executables.failed
        THEN /\ executed = <<>>
             /\ installerRet.err =
                    WrappedError("failed to collect executables", "executables")
        ELSE /\ executed = Names(libraries.val) \o Names(executables.val)
             /\ ~installerRet.err.failed
                    <=> Failures(libraries.val \o executables.val) = <<>>
             /\ installerRet.err.joined = Failures(libraries.val \o executables.val)
             /\ installerRet.err.wraps = ""

\* two libraries and two executables were collected, the first library and
\* the last executable fail: all four ran and both failures are returned
C15_Witness ==
    /\ installerRet.called
    /\ ~libraries.failed /\ ~executables.failed
    /\ Len(libraries.val) = 2 /\ Len(executables.val) = 2
    /\ libraries.val[1].fails /\ ~libraries.val[2].fails
    /\ ~executables.val[1].fails /\ executables.val[2].fails
    /\ Len(executed) = 4
    /\ Len(installerRet.err.joined) = 2

\* the package type is to be detected
AutoDetect == packageType \in {"", "auto"}

\* the host holds the executable of a package manager under the host root
Present(path) ==
    LET p == JoinPath(hostRoot, path)
    IN  p \in DOMAIN hostFiles /\ hostFiles[p] = "file"

\* C16 (as stated): when the package type is empty or 'auto',
\* resolvePackageType returns 'rpm' whenever /usr/bin/rpm is present under
\* the host root.
C16_RpmWhenPresent ==
    (resolveRet.called /\ AutoDetect /\ Present(RpmPath)) =>
        ~resolveRet.ret.panic /\ resolveRet.ret.packageType = "rpm"

\* C17 (as stated): resolvePackageType always returns a package type and no
\* error: a given type other than 'auto' unchanged and without probing the
\* filesystem, and 'deb' in auto mode when neither /usr/bin/rpm nor
\* /usr/bin/dpkg is present under the host root.
C17_AlwaysResolves ==
    resolveRet.called =>
        /\ ~resolveRet.ret.panic
        /\ ~resolveRet.ret.err.failed
        /\ ~AutoDetect =>
            resolveRet.ret.packageType = packageType /\ resolveRet.ret.probed = <<>>
        /\ (AutoDetect /\ ~Present(RpmPath) /\ ~Present(DpkgPath)) =>
            resolveRet.ret.packageType = "deb"

\* C18 (as stated): TryDelete on an existing toolkit root removes the other
\* entries that can be removed and leaves toolkit.pid, if present, in place;
\* it returns an error only when the root exists and cannot be read.
C18_KeepsPidFile ==
    tryDeleteRet.called =>
        /\ dirBefore.state = "dir" =>
            /\ toolkitPidFilename \in dirBefore.entries =>
                toolkitPidFilename \in toolkitDir.entries
            /\ \A e \in dirBefore.entries \ {toolkitPidFilename} :
                e \in toolkitDir.entries => e \in removeFails
        /\ tryDeleteRet.err.failed <=> dirBefore.state = "unreadable"

---------------------------------------------------------------------------
(* Properties of the features *)

\* the five named features, and the envvar and the configured value of each
KnownFeatures ==
    {"gds", "mofed", "nvswitch", "gdrcopy", "allow-additional-gids"}

EnvvarOfFeature ==
    [n \in KnownFeatures |->
        CASE n = "gds" -> "NVIDIA_GDS"
          [] n = "mofed" -> "NVIDIA_MOFED"
          [] n = "nvswitch" -> "NVIDIA_NVSWITCH"
          [] n = "gdrcopy" -> "NVIDIA_GDRCOPY"
          [] n = "allow-additional-gids" -> "NVIDIA_ALLOW_ADDITIONAL_GIDS"]

Configured ==
    [n \in KnownFeatures |->
        CASE n = "gds" -> features.GDS
          [] n = "mofed" -> features.MOFED
          [] n = "nvswitch" -> features.NVSWITCH
          [] n = "gdrcopy" -> features.GDRCopy
          [] n = "allow-additional-gids" -> features.AllowAdditionalGIDs]

\* the environments in which the envvar holds a recognised value
Deciding(envvar) ==
    {i \in DOMAIN envs :
        envvar \in DOMAIN envs[i]
        /\ envs[i][envvar] \in {"enabled", "true", "disabled", "false"}}

---------------------------------------------------------------------------
(* Properties of the ldcache-update discoverer *)

\* the mounts of the wrapped discoverer that are libraries, by position
LibraryMountAt ==
    {i \in DOMAIN mountsFrom.val :
        mountsFrom.val[i].Path \in {LibxPath, LibyPath, LibzPath, LibwPath}}

\* the directory "/a", "/b" or "/c" of a mount path
DirectoryOf(path) == SubSeq(path, 1, 2)

\* the first library mount in a directory
FirstIn(dir) ==
    CHOOSE i \in LibraryMountAt :
        /\ DirectoryOf(mountsFrom.val[i].Path) = dir
        /\ \A j \in LibraryMountAt :
            DirectoryOf(mountsFrom.val[j].Path) = dir => i <= j

\* C20: Hooks() of the ldcache-update discoverer returns exactly one hook,
\* at the createContainer lifecycle, whose arguments are the name of the
\* hook executable, `hook update-ldcache` and then `--folder <dir>` once per
\* directory of a library mount, the directories in the order of their
\* first appearance; when the wrapped Mounts() fails it returns an error and
\* no hook.
C20_OneLdcacheHook ==
    hooksRet.called =>
        IF mountsFrom.failed
        THEN hooksRet.err.failed /\ hooksRet.nil /\ hooksRet.hooks = <<>>
        ELSE /\ ~hooksRet.err.failed
             /\ Len(hooksRet.hooks) = 1
             /\ LET h == hooksRet.hooks[1]
                    n == (Len(h.Args) - 3) \div 2
                    folder == [k \in 1..n |-> h.Args[3 + 2 * k]]
                IN  /\ h.Lifecycle = "createContainer"
                    /\ Len(h.Args) = 3 + 2 * n
                    /\ h.Args[1] = Base(h.Path)
                    /\ h.Args[2] = HookArg
                    /\ h.Args[3] = UpdateLdcacheArg
                    /\ \A k \in 1..n : h.Args[2 + 2 * k] = FolderArg
                    /\ Range(folder) =
                        {DirectoryOf(mountsFrom.val[i].Path) : i \in LibraryMountAt}
                    /\ \A k, l \in 1..n :
                        k < l => /\ folder[k] # folder[l]
                                 /\ FirstIn(folder[k]) < FirstIn(folder[l])

\* libraries of /b, /a and /b again: the hook has the folders /b and /a
C20_Witness ==
    /\ hooksRet.called
    /\ ~mountsFrom.failed
    /\ Len(mountsFrom.val) = 3
    /\ mountsFrom.val[1].Path = LibzPath
    /\ mountsFrom.val[2].Path = LibxPath
    /\ mountsFrom.val[3].Path = LibzPath
    /\ Len(hooksRet.hooks) = 1
    /\ Len(hooksRet.hooks[1].Args) = 7
    /\ hooksRet.hooks[1].Args[5] = <<"/", "b">>
    /\ hooksRet.hooks[1].Args[7] = <<"/", "a">>

---------------------------------------------------------------------------
(* Properties of the create-dot-so-symlinks hook *)

\* the located files that end in .so.<version>
VersionedLibs ==
    {lib \in Range(locatedLibs.val) :
        HasSuffix(lib, <<".", "s", "o", ".">> \o driverVersion)}

\* <name>.so of a located library <name>.so.<version>
DotSoOf(lib) == SubSeq(lib, 1, Len(lib) - Len(driverVersion) - 1)

\* the files <name>.so.<digit> that existed next to <name>.so
SiblingsOf(name) == {f \in filesBefore : \E d \in Digits : f = name \o <<".", d>>}

\* the links the last run made
LinksMade == Range(runRet.links)

\* the run went through the located libraries
RanOverLibraries ==
    runRet.called /\ containerState = "loaded" /\ ~locatedLibs.failed

\* C21: create-dot-so-symlinks is best-effort per library.  Once the
\* libraries are located, every located <name>.so.<version> gets the link
\* <name>.so exactly when one sibling <name>.so.[0-9] exists and the symlink
\* call succeeds, the link points at the base name of that sibling, nothing
\* else is created, and the command returns nil whatever was skipped.
C21_BestEffortSymlinks ==
    RanOverLibraries =>
        /\ runRet.err = NoError
        /\ \A lib \in VersionedLibs :
              LET name == DotSoOf(lib)
              IN  /\ (\E l \in LinksMade : l.link = name) <=>
                        /\ Cardinality(SiblingsOf(name)) = 1
                        /\ name \notin filesBefore
                        /\ name \notin symlinkFails
                  /\ \A l \in LinksMade :
                        l.link = name =>
                            \E f \in SiblingsOf(name) : l.target = Base(f)
        /\ \A l \in LinksMade : \E lib \in VersionedLibs : l.link = DotSoOf(lib)
        /\ \A i, j \in DOMAIN runRet.links :
              runRet.links[i].link = runRet.links[j].link => i = j
        /\ containerFiles = filesBefore \cup {l.link : l \in LinksMade}

\* a first library is skipped and a later one is linked
C21_Witness ==
    /\ RanOverLibraries
    /\ Len(locatedLibs.val) = 2
    /\ locatedLibs.val[1] \in VersionedLibs
    /\ locatedLibs.val[2] \in VersionedLibs
    /\ Cardinality(SiblingsOf(DotSoOf(locatedLibs.val[1]))) # 1
    /\ LinksMade = {[link |-> DotSoOf(locatedLibs.val[2]), target |-> Base(Liby1)]}

---------------------------------------------------------------------------
(* Properties of the config locator *)

\* the components of each search path entry, written out
ComponentsOf(entry) ==
    CASE entry = <<>> -> <<>>
      [] entry = <<"/", "c">> -> << <<"/", "c">> >>
      [] entry = <<"/", "c", ":", "/", "e">> -> << <<"/", "c">>, <<"/", "e">> >>
      [] entry = <<"/", "x", ":", ":", "/", "y">> ->
            << <<"/", "x">>, <<>>, <<"/", "y">> >>

RECURSIVE Flatten(_)
\* the sequences of a sequence, one after the other
Flatten(ss) == IF ss = <<>> THEN <<>> ELSE Head(ss) \o Flatten(Tail(ss))

\* the components of the supplied config search paths, in order
SuppliedComponents ==
    Flatten([i \in DOMAIN configSearchPaths |-> ComponentsOf(configSearchPaths[i])])

\* the XDG data directories of the environment
XdgDirs ==
    IF ~xdgEnv.exists \/ xdgEnv.val = <<>> THEN <<UsrLocalShare, UsrShare>>
    ELSE ComponentsOf(xdgEnv.val)

---------------------------------------------------------------------------
(* Properties of toolkit.Install without ignoreErrors *)

\* how the step at position i of Install ends on this host
OutcomeAt(i) ==
    StepOutcome(InstallSteps[i],
                InstallEnv(stepFails, hostFiles, hostRoot, packageType,
                           libraries, executables))

\* the first i steps of Install
FirstSteps(i) == SubSeq(InstallSteps, 1, i)

\* C23: without ignoreErrors, toolkit.Install runs its steps in their fixed
\* order, the removal of the toolkit root first; the first step that fails
\* makes Install return that step's error with no later step attempted, and
\* Install returns nil only after every step was attempted and none failed.
C23_FixedOrderFirstFailure ==
    (installRet.called /\ ~ignoreErrors) =>
        /\ \E i \in DOMAIN InstallSteps : installRet.ret.attempted = FirstSteps(i)
        /\ \A i \in DOMAIN InstallSteps :
              (OutcomeAt(i) = "fail" /\ \A j \in 1..(i - 1) : OutcomeAt(j) = "ok") =>
                  /\ installRet.ret.kind = "error"
                  /\ installRet.ret.msg = StepMessage(InstallSteps[i])
                  /\ installRet.ret.attempted = FirstSteps(i)
        /\ installRet.ret.kind = "error" =>
              OutcomeAt(Len(installRet.ret.attempted)) = "fail"
        /\ installRet.ret.kind = "nil" =>
              /\ installRet.ret.attempted = InstallSteps
              /\ \A i \in DOMAIN InstallSteps : OutcomeAt(i) = "ok"
        /\ installRet.ret.ignored = <<>>

\* the config cannot be written and the device nodes cannot be created:
\* Install returns the error of the config after five steps
C23_Witness ==
    /\ installRet.called
    /\ ~ignoreErrors
    /\ stepFails = {"installToolkitConfig", "createDeviceNodes"}
    /\ installRet.ret.kind = "error"
    /\ installRet.ret.msg = "error installing NVIDIA container toolkit config"
    /\ Len(installRet.ret.attempted) = 5

---------------------------------------------------------------------------
(* Properties of the library names *)

\* the positions where ".so" starts in a name
DotSoAt(name) ==
    {i \in 1..(Len(name) - 2) : SubSeq(name, i, i + 2) = <<".", "s", "o">>}

\* what follows the ".so" that starts at position i
After(name, i) == SubSeq(name, i + 3, Len(name))

\* zero or more groups .<digits>
IsVersionSuffix(rest) ==
    /\ \A k \in DOMAIN rest : rest[k] = "." \/ rest[k] \in Digits
    /\ rest # <<>> => rest[1] = "." /\ rest[Len(rest)] # "."
    /\ \A k \in 1..(Len(rest) - 1) : ~(rest[k] = "." /\ rest[k + 1] = ".")

\* a base name of the form lib<name>.so[.<digits>[.<digits>...]]
IsVersionedLibName(base) ==
    /\ Len(base) >= 3 /\ SubSeq(base, 1, 3) = <<"l", "i", "b">>
    /\ \E i \in DotSoAt(base) : i >= 5 /\ IsVersionSuffix(After(base, i))

\* a base name lib<name>.so<rest> whose part after the last ".so" is empty or
\* starts with a dot
IsAcceptedLibName(base) ==
    /\ Len(base) >= 3 /\ SubSeq(base, 1, 3) = <<"l", "i", "b">>
    /\ \E i \in DotSoAt(base) : i >= 5
    /\ \A i \in DotSoAt(base) :
          (\A j \in DotSoAt(base) : j <= i) =>
              After(base, i) = <<>> \/ After(base, i)[1] = "."

\* the file name of a mount path "/<d>/<file>"
FileOf(path) == SubSeq(path, 4, Len(path))

\* the folders of the --folder arguments of the hook
HookFolders ==
    {hooksRet.hooks[1].Args[k + 1] :
        k \in {k \in 1..(Len(hooksRet.hooks[1].Args) - 1) :
                  hooksRet.hooks[1].Args[k] = FolderArg}}

\* a hook was made from the mounts
HookMade == hooksRet.called /\ ~mountsFrom.failed /\ Len(hooksRet.hooks) = 1

\* C24 (as stated): the --folder arguments are the directories of exactly
\* the mounts whose base name is lib<name>.so[.<digits>[.<digits>...]].
C24_OnlyVersionedLibs ==
    HookMade =>
        HookFolders =
            {DirectoryOf(mountsFrom.val[i].Path) :
                i \in {i \in DOMAIN mountsFrom.val :
                          IsVersionedLibName(FileOf(mountsFrom.val[i].Path))}}

\* C24: the --folder arguments are the directories of exactly the mounts
\* whose base name is lib<name>.so<rest> with nothing or a dot after the last
\* ".so"; every lib<name>.so[.<digits>[.<digits>...]] is among them, and a
\* mount with any other base name contributes no --folder argument.
C24_OnlyAcceptedLibs ==
    HookMade =>
        /\ HookFolders =
              {DirectoryOf(mountsFrom.val[i].Path) :
                  i \in {i \in DOMAIN mountsFrom.val :
                            IsAcceptedLibName(FileOf(mountsFrom.val[i].Path))}}
        /\ \A i \in DOMAIN mountsFrom.val :
              IsVersionedLibName(FileOf(mountsFrom.val[i].Path)) =>
                  DirectoryOf(mountsFrom.val[i].Path) \in HookFolders

\* /c/libu.sox and /c/x.conf give no folder, /d/libw.so.x and /a/libx.so.1 do
C24_Witness ==
    /\ HookMade
    /\ {mountsFrom.val[i].Path : i \in DOMAIN mountsFrom.val} =
          {LibuPath, LibwPath, LibxPath}
    /\ HookFolders = {<<"/", "d">>, <<"/", "a">>}


\* the names libfoo.so, libfoo.so.1 and libfoo.so.1.2.3
AcceptedExamples ==
    { <<"l", "i", "b", "f", "o", "o", ".", "s", "o">>,
      <<"l", "i", "b", "f", "o", "o", ".", "s", "o", ".", "1">>,
      << "l", "i", "b", "f", "o", "o", ".", "s", "o", ".", "1", ".", "2", ".",
         "3" >> }
\* the names libfoo.soup, foo.so and libfoo.sox
RejectedExamples ==
    { <<"l", "i", "b", "f", "o", "o", ".", "s", "o", "u", "p">>,
      <<"f", "o", "o", ".", "s", "o">>,
      <<"l", "i", "b", "f", "o", "o", ".", "s", "o", "x">> }

\* C25: isLibName accepts a file name exactly when its base name matches
\* lib?*.so* and what follows the last ".so" is empty or starts with a dot:
\* libfoo.so, libfoo.so.1 and libfoo.so.1.2.3 are accepted, libfoo.soup,
\* foo.so and libfoo.sox are rejected.
C25_IsLibName ==
    isLibNameRet.called =>
        /\ isLibNameRet.val <=> IsAcceptedLibName(Base(askedName))
        /\ askedName \in AcceptedExamples => isLibNameRet.val
        /\ askedName \in RejectedExamples => ~isLibNameRet.val

\* libx.so.soup has ".so" twice and is rejected for what follows the last
C25_Witness ==
    /\ isLibNameRet.called
    /\ askedName =
          <<"l", "i", "b", "x", ".", "s", "o", ".", "s", "o", "u", "p">>
    /\ ~isLibNameRet.val


\* the directory of each file handed to uniqueFolders, written out
FolderOf(path) ==
    CASE path = <<"/", "a", "/", "l", "i", "b", "x", ".", "s", "o", ".", "1">> ->
            <<"/", "a">>
      [] path = <<"/", "a", "/", "l", "i", "b", "y", ".", "s", "o", ".", "1">> ->
            <<"/", "a">>
      [] path = <<"/", "b", "/", "l", "i", "b", "z", ".", "s", "o", ".", "1">> ->
            <<"/", "b">>
      [] path = <<"/", "a", "/", "/", "l", "i", "b", "q", ".", "s", "o">> ->
            <<"/", "a">>
      [] path = <<"/", "l", "i", "b", "r", ".", "s", "o">> -> <<"/">>
      [] path = <<"l", "i", "b", "v", ".", "s", "o">> -> <<".">>
      [] path = <<>> -> <<".">>

\* the position of the first file in a folder
FirstFileIn(folder) ==
    CHOOSE i \in DOMAIN libraryPaths :
        /\ FolderOf(libraryPaths[i]) = folder
        /\ \A j \in DOMAIN libraryPaths :
              FolderOf(libraryPaths[j]) = folder => i <= j

\* C28: uniqueFolders returns the containing directories of its input
\* paths, each once and in the order of their first appearance, and the
\* directory of every input path is in the result.
C28_UniqueFolders ==
    uniqueFoldersRet.called =>
        LET r == uniqueFoldersRet.val
        IN  /\ \A k, l \in DOMAIN r : r[k] = r[l] => k = l
            /\ Range(r) = {FolderOf(libraryPaths[i]) : i \in DOMAIN libraryPaths}
            /\ \A k, l \in DOMAIN r :
                  k < l => FirstFileIn(r[k]) < FirstFileIn(r[l])

\* /a/libx.so.1, /a/liby.so.1, /b/libz.so.1 gives /a, /b
C28_Witness ==
    /\ uniqueFoldersRet.called
    /\ libraryPaths =
          << <<"/", "a", "/", "l", "i", "b", "x", ".", "s", "o", ".", "1">>,
             <<"/", "a", "/", "l", "i", "b", "y", ".", "s", "o", ".", "1">>,
             <<"/", "b", "/", "l", "i", "b", "z", ".", "s", "o", ".", "1">> >>
    /\ uniqueFoldersRet.val = << <<"/", "a">>, <<"/", "b">> >>

---------------------------------------------------------------------------
(* Properties of the hook executable *)

\* C26: the hook runs the first path the executable locator returns; when
\* the locator fails or returns no path the hook is still emitted, with the
\* path /usr/bin/nvidia-ctk, and Hooks() returns no error.
C26_HookPath ==
    (hooksRet.called /\ ~mountsFrom.failed) =>
        /\ hooksRet.err = NoError
        /\ Len(hooksRet.hooks) = 1
        /\ IF lookup.failed \/ lookup.val = <<>>
           THEN hooksRet.hooks[1].Path =
                    << "/", "u", "s", "r", "/", "b", "i", "n", "/", "n", "v",
                       "i", "d", "i", "a", "-", "c", "t", "k" >>
           ELSE hooksRet.hooks[1].Path = Head(lookup.val)

\* the locator fails and the hook of two library mounts runs the default path
C26_Witness ==
    /\ hooksRet.called
    /\ ~mountsFrom.failed
    /\ Len(mountsFrom.val) = 2
    /\ lookup.failed
    /\ Len(hooksRet.hooks) = 1
    /\ hooksRet.hooks[1].Path = nvidiaCTKDefaultFilePath
    /\ Len(hooksRet.hooks[1].Args) > 3

---------------------------------------------------------------------------
(* Properties of the options *)

\* the modes listed on the command line
ListedModes == optsBefore.createDeviceNodes

\* CDI is enabled and has an output directory
CdiStaysEnabled == optsBefore.cdiEnabled /\ optsBefore.cdiOutputDir # ""

\* a listed mode is '' or 'none'
ListsNone == \E i \in DOMAIN ListedModes : ListedModes[i] \in {"", "none"}

\* an unknown mode is listed before any '' or 'none'
UnknownModeFirst ==
    \E i \in DOMAIN ListedModes :
        /\ ListedModes[i] \notin {"", "none", "control"}
        /\ \A j \in 1..(i - 1) : ListedModes[j] \notin {"", "none"}

\* C27: after ValidateOptions succeeds, the device-node modes are empty
\* whenever CDI is not enabled (also when it was switched off for want of
\* an output directory) or a listed mode is '' or 'none', and otherwise hold
\* only 'control'; an unknown mode listed before any ''/'none' makes
\* ValidateOptions fail, and so does an empty toolkit root.
C27_DeviceNodeModes ==
    validateRet.called =>
        /\ ~validateRet.err.failed =>
              IF ~CdiStaysEnabled \/ ListsNone
              THEN opts.createDeviceNodes = <<>>
              ELSE /\ opts.createDeviceNodes = ListedModes
                   /\ \A i \in DOMAIN opts.createDeviceNodes :
                         opts.createDeviceNodes[i] = "control"
        /\ UnknownModeFirst => validateRet.err.failed
        /\ toolkitRoot = "" => validateRet.err.failed

\* control, none and an unknown mode with CDI enabled: the options are
\* valid and no device node is created
C27_Witness ==
    /\ validateRet.called
    /\ ~validateRet.err.failed
    /\ CdiStaysEnabled
    /\ ListedModes = <<"control", "none", "all">>
    /\ opts.createDeviceNodes = <<>>

---------------------------------------------------------------------------
(* Properties of the vfio device specs *)

\* the positions, counted from 0, of the GPUs bound to vfio-pci
VfioIndexes ==
    {i \in 0..(Len(gpus.val) - 1) : gpus.val[i + 1].Driver = "vfio-pci"}

\* the k-th smallest of the vfio indexes
VfioIndex(k) ==
    CHOOSE i \in VfioIndexes : Cardinality({j \in VfioIndexes : j < i}) = k - 1

\* the numbers of the model in decimal, written out
DecimalOf(n) ==
    CASE n = 0 -> <<"0">>
      [] n = 1 -> <<"1">>
      [] n = 2 -> <<"2">>
      [] n = 3 -> <<"3">>
      [] n = 7 -> <<"7">>
      [] n = 12 -> <<"1", "2">>

\* C29: GetAllDeviceSpecs returns one device spec per GPU bound to
\* vfio-pci, in inventory order, named by the index of the GPU in the whole
\* inventory (so the names differ) and with the one device node
\* /dev/vfio/<IommuGroup>; other GPUs contribute nothing, and a failing
\* inventory gives an error and no specs.
C29_VfioDeviceSpecs ==
    deviceSpecsRet.called =>
        IF gpus.failed
        THEN /\ deviceSpecsRet.err.failed
             /\ deviceSpecsRet.nil
             /\ deviceSpecsRet.specs = <<>>
        ELSE /\ deviceSpecsRet.err = NoError
             /\ Len(deviceSpecsRet.specs) = Cardinality(VfioIndexes)
             /\ \A k \in DOMAIN deviceSpecsRet.specs :
                   LET s == deviceSpecsRet.specs[k]
                       gpu == gpus.val[VfioIndex(k) + 1]
                   IN  /\ s.Name = DecimalOf(VfioIndex(k))
                       /\ Len(s.ContainerEdits.DeviceNodes) = 1
                       /\ s.ContainerEdits.DeviceNodes[1].Path =
                             <<"/", "d", "e", "v", "/", "v", "f", "i", "o", "/">>
                                \o DecimalOf(gpu.IommuGroup)
             /\ \A k, l \in DOMAIN deviceSpecsRet.specs :
                   deviceSpecsRet.specs[k].Name = deviceSpecsRet.specs[l].Name
                       => k = l

\* a GPU on the nvidia driver between two on vfio-pci: the specs are named
\* 0 and 2
C29_Witness ==
    /\ deviceSpecsRet.called
    /\ ~gpus.failed
    /\ Len(gpus.val) = 3
    /\ gpus.val[2].Driver = "nvidia"
    /\ gpus.val[3].IommuGroup = 12
    /\ Len(deviceSpecsRet.specs) = 2
    /\ deviceSpecsRet.specs[1].Name = <<"0">>
    /\ deviceSpecsRet.specs[2].Name = <<"2">>
    /\ deviceSpecsRet.specs[2].ContainerEdits.DeviceNodes[1].Path =
          <<"/", "d", "e", "v", "/", "v", "f", "i", "o", "/", "1", "2">>

=============================================================================
